---- MODULE Spec2Model ----
(***************************************************************************)
(* A model of the buffer pool of pnathan/bufferpool (rust/src).            *)
(*                                                                         *)
(*   unique_stack/mod.rs  UniqueStack   the recency tracker                *)
(*   framepool/mod.rs     PageFrame     data + pin count + dirty flag      *)
(*   framepool/mod.rs     MemPool       the backing store (FramePool)      *)
(*   bufferpool/mod.rs    BufferPool    get_page, put_page, sync_index,    *)
(*                                      flush_all, ensure_allocation and   *)
(*                                      the two eviction policies          *)
(*   bufferpool/mod.rs    BufferPoolIterator   the traversal of a pool     *)
(*   bufferpool/mod.rs    SlabMapper    flush and get by element index     *)
(*                                                                         *)
(* Option<T> values are modelled as sequences: <<>> is None and <<x>> is   *)
(* Some(x).  HashMaps are functions whose DOMAIN is the key set.  The      *)
(* pool's callers follow frame data by value; SpecFrame follows one frame  *)
(* Arc by Arc, with strong counts, and its pin count through an underflow. *)
(***************************************************************************)
EXTENDS Integers, Sequences, FiniteSets, TLC

\* ---------------------------------------------------------------- bounds
\* Largest pool capacity (BufferPool::size) explored.
MaxCap == 2
\* Frame ids are 0 .. MaxFid.
MaxFid == 1
\* Data values are 0 .. MaxVal.
MaxVal == 1
\* Largest pin count a caller builds up with pin().
MaxPins == 1
\* Largest argument of ensure_allocation.
MaxResize == 1
\* Largest capacity and largest frame id of the runs that get frames only.
LruMaxCap == 3
LruMaxFid == 3
\* Longest sequence a SlabMapper flushes, largest stride, and the largest
\* store its flushes build up.
SlabMaxSeq == 3
MaxStride == 2
SlabMaxFrames == 4
\* UniqueStack by itself: keys 0 .. StackMaxKey
StackMaxKey == 3
\* PageFrame by itself: pin() and unpin() calls made on the frame
FrameMaxCalls == 2
\* Threads that share a frame
MaxThreads == 3
\* MemPool by itself: indices 0 .. MemMaxIdx
MemMaxIdx == 2
\* The two policies at work: capacities 1 .. EvictMaxCap, frames 0 .. EvictMaxFid
EvictMaxCap == 2
EvictMaxFid == 2
\* A pool of capacity 1 in use: frames 0 .. SeqMaxFid
SeqMaxFid == 4

Fids == 0 .. MaxFid
Values == 0 .. MaxVal
Caps == 1 .. MaxCap
Evictors == {"bottom_evictor", "random_evictor"}

\* The absent value of an Option, and the failed return values.
None == <<>>
Some(x) == <<x>>
NoFid == -1

VARIABLES
    size,        \* BufferPool::size, the capacity
    evictor,     \* BufferPool::evictor
    pages,       \* BufferPool::pages : slot id -> Option<PageFrame>
    buf2frame,   \* BufferPool::buf2frame : slot id -> frame id
    frame2buf,   \* BufferPool::frame2buf : frame id -> slot id
    lru,         \* BufferPool::lru : UniqueStack<BufferPoolId>
    frame_pool,  \* MemPool::pool : frame id -> Option<data>
    handle,      \* the slot of the &PageFrame the caller holds, or None
    expected,    \* the plain map a caller keeps next to the pool
    last,        \* the call that was made last, and what it returned
    access_log,  \* the frames a caller got, the most recent last
    stride,      \* SlabMapper::stride; 0 for a pool without a mapper
    iter,        \* the BufferPoolIterator of a traversal, or None
    arcs,        \* the Arc allocations of a frame followed Arc by Arc
    snapshot,    \* the Arc a caller got from get_data_arc, or None
    overflow_checks, \* the build's overflow-checks (on in debug and test builds)
    threads,     \* the threads that share a frame: program, position, locals
    mutex        \* PageFrame::mutex: the thread that holds it, or None

vars == <<size, evictor, pages, buf2frame, frame2buf, lru, frame_pool,
          handle, expected, last, access_log, stride, iter, arcs, snapshot,
          overflow_checks, threads, mutex>>

\* What the callers of a pool leave alone: their frames' data is followed
\* by value, no counter of theirs overflows, and they are one thread.
frame_level == <<arcs, snapshot, overflow_checks, threads, mutex>>

\* ------------------------------------------------------------ HashMap
insert(m, k, v) == [x \in DOMAIN m \cup {k} |-> IF x = k THEN v ELSE m[x]]
remove(m, k) == [x \in DOMAIN m \ {k} |-> m[x]]
EmptyMap == [x \in {} |-> 0]

\* ------------------------------------------------------ UniqueStack
RECURSIVE position(_, _, _)
\* order.iter().position(|x| *x == item), counted from 1; 0 when absent
position(order, item, i) ==
    IF i > Len(order) THEN 0
    ELSE IF order[i] = item THEN i
    ELSE position(order, item, i + 1)

\* Vec::remove(idx)
vec_remove(order, idx) ==
    [j \in 1 .. Len(order) - 1 |-> IF j < idx THEN order[j] ELSE order[j + 1]]

UniqueStack_new == [order |-> <<>>, unique |-> {}]

\* A push that leaves a key that is already present where it is.
UniqueStack_push_once(st, item) ==
    IF item \in st.unique THEN st
    ELSE [order |-> Append(st.order, item), unique |-> st.unique \cup {item}]

\* A push that puts a new item below the others.
UniqueStack_push_bottom(st, item) ==
    IF item \in st.unique
    THEN [st EXCEPT !.order = Append(vec_remove(@, position(@, item, 1)), item)]
    ELSE [order |-> <<item>> \o st.order, unique |-> st.unique \cup {item}]

UniqueStack_push(st, item) ==
    LET o == IF item \in st.unique
             THEN vec_remove(st.order, position(st.order, item, 1))
             ELSE st.order
    IN [order |-> Append(o, item), unique |-> st.unique \cup {item}]

\* A delete that fills the removed place with the top item (swap_remove).
UniqueStack_delete_swap(st, item) ==
    IF item \in st.unique
    THEN LET idx == position(st.order, item, 1)
             n == Len(st.order)
         IN [order |-> [k \in 1 .. n - 1 |->
                           IF k = idx THEN st.order[n] ELSE st.order[k]],
             unique |-> st.unique \ {item}]
    ELSE st

UniqueStack_delete(st, item) ==
    IF item \in st.unique
    THEN [order |-> vec_remove(st.order, position(st.order, item, 1)),
          unique |-> st.unique \ {item}]
    ELSE st

\* A pop that leaves the popped item in the membership set.
UniqueStack_pop_kept(st) ==
    IF st.order = <<>> THEN [st |-> st, item |-> None]
    ELSE [st |-> [st EXCEPT !.order = SubSeq(@, 1, Len(@) - 1)],
          item |-> Some(st.order[Len(st.order)])]

\* pop: order.pop(), and the popped item leaves the membership set
UniqueStack_pop(st) ==
    IF st.order = <<>> THEN [st |-> st, item |-> None]
    ELSE LET x == st.order[Len(st.order)]
         IN [st |-> [order |-> SubSeq(st.order, 1, Len(st.order) - 1),
                     unique |-> st.unique \ {x}],
             item |-> Some(x)]

top(st) == IF st.order = <<>> THEN None ELSE Some(st.order[Len(st.order)])
contains(st, item) == item \in st.unique
len(st) == Len(st.order)

\* ---------------------------------------------------------- PageFrame
new_with_arc(data) == [data |-> data, pins |-> 0, dirty |-> FALSE]
\* pins is a u32, kept as the 32-bit integer with the same bits, so that
\* u32::MAX is -1: the counter is above 0 when it is not 0.
is_pinned(page) == page.pins # 0
is_dirty(page) == page.dirty
set_dirty(page, d) == [page EXCEPT !.dirty = d]
\* A with_data that leaves the dirty flag alone.
with_data_unmarked(page, v) == [page EXCEPT !.data = v]

\* A with_data that marks the frame only when its data field changed.
with_data_if_changed(page, v) ==
    [page EXCEPT !.data = v, !.dirty = @ \/ page.data # v]

with_data(page, v) == [page EXCEPT !.data = v, !.dirty = TRUE]
pin(page) == [page EXCEPT !.pins = @ + 1]
unpin(page) == [page EXCEPT !.pins = @ - 1]

\* ---------------------------------------------------------------- Arc
\* An allocation holds the value and the strong count; a frame followed
\* Arc by Arc has the allocation's id in its data field.
Arc_new(heap, v) ==
    LET a == CHOOSE i \in 1 .. Cardinality(DOMAIN heap) + 1 : i \notin DOMAIN heap
    IN [heap |-> insert(heap, a, [value |-> v, strong |-> 1]), arc |-> a]

Arc_clone(heap, a) == [heap EXCEPT ![a].strong = @ + 1]

Arc_drop(heap, a) ==
    IF heap[a].strong = 1 THEN remove(heap, a)
    ELSE [heap EXCEPT ![a].strong = @ - 1]

\* A make_mut that writes through a shared allocation.
make_mut_in_place(heap, a, v) ==
    [heap |-> [heap EXCEPT ![a].value = v], arc |-> a]

\* Arc::make_mut(&mut inner.data), then the closure's write of v: the
\* value is cloned into a new allocation when the Arc is shared.
make_mut(heap, a, v) ==
    IF heap[a].strong = 1
    THEN [heap |-> [heap EXCEPT ![a].value = v], arc |-> a]
    ELSE LET n == Arc_new(heap, heap[a].value)
         IN [heap |-> [Arc_drop(n.heap, a) EXCEPT ![n.arc].value = v],
             arc |-> n.arc]

\* PageFrame::data and read_data: the value behind the frame's Arc
PageFrame_data(heap, page) == heap[page.data].value
read_data(heap, page) == heap[page.data].value
\* PageFrame::put: inner.data = Arc::new(data); the old Arc is dropped
put(heap, page, v) ==
    LET n == Arc_new(heap, v)
    IN [heap |-> Arc_drop(n.heap, page.data),
        page |-> [page EXCEPT !.data = n.arc]]
\* PageFrame::get_data_arc
get_data_arc(heap, page) == [heap |-> Arc_clone(heap, page.data), arc |-> page.data]

\* ------------------------------------------------------------ MemPool
MemPool_size(pool) == Cardinality(DOMAIN pool)

\* Ok(data) is Some(data); any Err is None.
get_frame_ref(pool, id) ==
    IF id \in DOMAIN pool THEN pool[id] ELSE None

put_frame(pool, idx, data) == insert(pool, idx, Some(data))

resize(pool, count) ==
    LET old_sz == MemPool_size(pool)
        added == {old_sz + i : i \in 0 .. count - 1}
    IN [x \in DOMAIN pool \cup added |-> IF x \in added THEN None ELSE pool[x]]

\* ----------------------------------------------------------- evictors
RECURSIVE random_trials_last(_, _, _)
\* A random evictor that settles for its last draw when the trials run out.
random_trials_last(pgs, draws, trials) ==
    IF trials > Len(pgs) THEN Some(draws[Len(draws)])
    ELSE LET n == draws[trials + 1]
         IN IF pgs[n + 1] # None /\ ~is_pinned(pgs[n + 1][1])
            THEN Some(n)
            ELSE random_trials_last(pgs, draws, trials + 1)

RECURSIVE random_trials(_, _, _)
\* the while loop of random_evictor; draws[t + 1] is the slot drawn by
\* rng.gen_range(0..len) in trial t.  Err is None.
random_trials(pgs, draws, trials) ==
    IF trials > Len(pgs) THEN None
    ELSE LET n == draws[trials + 1]
         IN IF pgs[n + 1] # None /\ ~is_pinned(pgs[n + 1][1])
            THEN Some(n)
            ELSE random_trials(pgs, draws, trials + 1)

RECURSIVE random_draws(_, _, _)
\* the number of times the while loop of random_evictor calls
\* rng.gen_range(0..len)
random_draws(pgs, draws, trials) ==
    IF trials > Len(pgs) THEN 0
    ELSE LET n == draws[trials + 1]
         IN IF pgs[n + 1] # None /\ ~is_pinned(pgs[n + 1][1])
            THEN 1
            ELSE 1 + random_draws(pgs, draws, trials + 1)

random_evictor(pgs, draws) == random_trials(pgs, draws, 0)

RECURSIVE bottom_scan_unpinned(_, _, _)
\* A bottom-up scan that does not ask is_pinned.
bottom_scan_unpinned(pgs, order, k) ==
    IF k > Len(order) THEN None
    ELSE LET i == order[k]
         IN IF pgs[i + 1] = None THEN bottom_scan_unpinned(pgs, order, k + 1)
            ELSE Some(i)

RECURSIVE bottom_scan_stops(_, _, _)
\* A bottom-up scan that gives up at the first pinned frame.
bottom_scan_stops(pgs, order, k) ==
    IF k > Len(order) THEN None
    ELSE LET i == order[k]
         IN IF pgs[i + 1] = None THEN bottom_scan_stops(pgs, order, k + 1)
            ELSE IF is_pinned(pgs[i + 1][1]) THEN None
            ELSE Some(i)

RECURSIVE bottom_scan(_, _, _)
\* the for loop of bottom_evictor over lru.order()
bottom_scan(pgs, order, k) ==
    IF k > Len(order) THEN None
    ELSE LET i == order[k]
         IN IF pgs[i + 1] = None THEN bottom_scan(pgs, order, k + 1)
            ELSE IF is_pinned(pgs[i + 1][1]) THEN bottom_scan(pgs, order, k + 1)
            ELSE Some(i)

bottom_evictor(pgs, stack) == bottom_scan(pgs, stack.order, 1)

\* --------------------------------------------------------- BufferPool
\* The fields of a BufferPool that its methods change, with the backing
\* store it borrows.
BP == [pages |-> pages, buf2frame |-> buf2frame, frame2buf |-> frame2buf,
       lru |-> lru, frame_pool |-> frame_pool]

BufferPool_new(sz, pool) ==
    [pages |-> [i \in 1 .. sz |-> None], buf2frame |-> EmptyMap,
     frame2buf |-> EmptyMap, lru |-> UniqueStack_new, frame_pool |-> pool]

\* What a call reports: the pool after it, whether it returned Some/Ok,
\* the frame it evicted, the frames it wrote to the backing store, the
\* frames whose put_frame returned Err, whether get_frame_ref returned Err.
Outcome(bp, ok, victim, wrote, werr, rerr) ==
    [bp |-> bp, ok |-> ok, victim |-> victim, wrote |-> wrote,
     werr |-> werr, rerr |-> rerr]

\* A policy that never finds a victim.
run_evictor_none(ev, pgs, stack, draws) == None

\* the evictor stored in the pool, applied
run_evictor(ev, pgs, stack, draws) ==
    IF ev = "bottom_evictor" THEN bottom_evictor(pgs, stack)
    ELSE random_evictor(pgs, draws)

\* A victim's write-back that skips the put_frame.
flush_victim_skipped(bp, victim_idx, victim_frame_id, wok) ==
    [ok |-> TRUE, frame_pool |-> bp.frame_pool, wrote |-> {}, werr |-> {}]

\* A victim's write-back whose put_frame error is dropped.
flush_victim_unchecked(bp, victim_idx, victim_frame_id, wok) ==
    LET victim_page == bp.pages[victim_idx + 1][1]
    IN IF ~is_dirty(victim_page)
       THEN [ok |-> TRUE, frame_pool |-> bp.frame_pool, wrote |-> {}, werr |-> {}]
       ELSE IF ~wok
       THEN [ok |-> TRUE, frame_pool |-> bp.frame_pool, wrote |-> {},
             werr |-> {victim_frame_id}]
       ELSE [ok |-> TRUE,
             frame_pool |-> put_frame(bp.frame_pool, victim_frame_id, victim_page.data),
             wrote |-> {victim_frame_id}, werr |-> {}]

\* get_page, `if victim_page.is_dirty() { ... put_frame(..).ok()?; }`.
\* wok: the backing store's put_frame returns Ok.
flush_victim(bp, victim_idx, victim_frame_id, wok) ==
    LET victim_page == bp.pages[victim_idx + 1][1]
    IN IF ~is_dirty(victim_page)
       THEN [ok |-> TRUE, frame_pool |-> bp.frame_pool, wrote |-> {}, werr |-> {}]
       ELSE IF ~wok
       THEN [ok |-> FALSE, frame_pool |-> bp.frame_pool, wrote |-> {},
             werr |-> {victim_frame_id}]
       ELSE [ok |-> TRUE,
             frame_pool |-> put_frame(bp.frame_pool, victim_frame_id, victim_page.data),
             wrote |-> {victim_frame_id}, werr |-> {}]

\* A clearing of the victim that leaves its frame2buf entry behind.
clear_victim_stale(bp, victim_idx, victim_frame_id) ==
    [bp EXCEPT !.pages[victim_idx + 1] = None,
               !.buf2frame = remove(@, victim_idx),
               !.lru = UniqueStack_delete(@, victim_idx)]

\* A clearing of the victim that leaves the frame in its slot.
clear_victim_kept_slot(bp, victim_idx, victim_frame_id) ==
    [bp EXCEPT !.buf2frame = remove(@, victim_idx),
               !.frame2buf = remove(@, victim_frame_id),
               !.lru = UniqueStack_delete(@, victim_idx)]

\* A clearing of the victim that leaves its slot in the recency tracker.
clear_victim_tracked(bp, victim_idx, victim_frame_id) ==
    [bp EXCEPT !.pages[victim_idx + 1] = None,
               !.buf2frame = remove(@, victim_idx),
               !.frame2buf = remove(@, victim_frame_id)]

\* get_page, the four statements that clear the victim's slot, its two
\* map entries and its place in the recency tracker.
clear_victim(bp, victim_idx, victim_frame_id) ==
    [bp EXCEPT !.pages[victim_idx + 1] = None,
               !.buf2frame = remove(@, victim_idx),
               !.frame2buf = remove(@, victim_frame_id),
               !.lru = UniqueStack_delete(@, victim_idx)]

\* An eviction that does not wait for the pool to be full.
evict_eagerly(bp, sz, ev, draws, wok) ==
    LET v == bottom_evictor(bp.pages, bp.lru)
    IN IF v = None
       THEN Outcome(bp, Cardinality(DOMAIN bp.frame2buf) # sz, NoFid, {}, {}, FALSE)
       ELSE LET victim_idx == v[1]
                victim_frame_id == bp.buf2frame[victim_idx]
                w == flush_victim(bp, victim_idx, victim_frame_id, wok)
            IN IF ~w.ok
               THEN Outcome(bp, FALSE, NoFid, {}, w.werr, FALSE)
               ELSE Outcome(
                      clear_victim([bp EXCEPT !.frame_pool = w.frame_pool],
                                   victim_idx, victim_frame_id),
                      TRUE, victim_frame_id, w.wrote, w.werr, FALSE)

\* get_page, the block guarded by frame2buf.len() == self.size.
evict(bp, sz, ev, draws, wok) ==
    IF Cardinality(DOMAIN bp.frame2buf) # sz
    THEN Outcome(bp, TRUE, NoFid, {}, {}, FALSE)
    ELSE LET v == run_evictor(ev, bp.pages, bp.lru, draws)
         IN IF v = None
            THEN Outcome(bp, FALSE, NoFid, {}, {}, FALSE)
            ELSE LET victim_idx == v[1]
                     victim_frame_id == bp.buf2frame[victim_idx]
                     w == flush_victim(bp, victim_idx, victim_frame_id, wok)
                 IN IF ~w.ok
                    THEN Outcome(bp, FALSE, NoFid, {}, w.werr, FALSE)
                    ELSE Outcome(
                           clear_victim([bp EXCEPT !.frame_pool = w.frame_pool],
                                        victim_idx, victim_frame_id),
                           TRUE, victim_frame_id, w.wrote, w.werr, FALSE)

RECURSIVE first_none(_, _)
\* self.pages.iter().position(|x| x.is_none()), as a slot id; -1 when
\* there is no empty slot
first_none(pgs, i) ==
    IF i > Len(pgs) THEN -1
    ELSE IF pgs[i] = None THEN i - 1
    ELSE first_none(pgs, i + 1)

\* get_page, from the search of an empty slot to the two map inserts.
\* rok: the backing store's get_frame_ref does not fail on its own.
load(bp, frame_idx, rok) ==
    LET target_idx == first_none(bp.pages, 1)
        frame_data == IF rok THEN get_frame_ref(bp.frame_pool, frame_idx) ELSE None
    IN IF target_idx = -1 THEN [bp |-> bp, ok |-> FALSE, rerr |-> FALSE]
       ELSE IF frame_data = None THEN [bp |-> bp, ok |-> FALSE, rerr |-> TRUE]
       ELSE [bp |-> [bp EXCEPT
                       !.pages[target_idx + 1] = Some(new_with_arc(frame_data[1])),
                       !.buf2frame = insert(@, target_idx, frame_idx),
                       !.frame2buf = insert(@, frame_idx, target_idx)],
             ok |-> TRUE, rerr |-> FALSE]

\* get_page, the final match: push the slot on the recency tracker
touch(bp, frame_idx) ==
    IF frame_idx \in DOMAIN bp.frame2buf
    THEN [bp EXCEPT !.lru = UniqueStack_push(@, bp.frame2buf[frame_idx])]
    ELSE bp

\* A get_page without the check against frame_pool.size().
get_page_unchecked(bp, sz, ev, frame_idx, draws, wok, rok) ==
    IF frame_idx \notin DOMAIN bp.frame2buf
    THEN LET e == evict(bp, sz, ev, draws, wok)
         IN IF ~e.ok THEN e
            ELSE LET l == load(e.bp, frame_idx, rok)
                 IN IF ~l.ok
                    THEN Outcome(l.bp, FALSE, e.victim, e.wrote, e.werr, l.rerr)
                    ELSE Outcome(touch(l.bp, frame_idx), TRUE, e.victim,
                                 e.wrote, e.werr, FALSE)
    ELSE Outcome(touch(bp, frame_idx), TRUE, NoFid, {}, {}, FALSE)

get_page(bp, sz, ev, frame_idx, draws, wok, rok) ==
    IF frame_idx > MemPool_size(bp.frame_pool)
    THEN Outcome(bp, FALSE, NoFid, {}, {}, FALSE)
    ELSE IF frame_idx \notin DOMAIN bp.frame2buf
    THEN LET e == evict(bp, sz, ev, draws, wok)
         IN IF ~e.ok THEN e
            ELSE LET l == load(e.bp, frame_idx, rok)
                 IN IF ~l.ok
                    THEN Outcome(l.bp, FALSE, e.victim, e.wrote, e.werr, l.rerr)
                    ELSE Outcome(touch(l.bp, frame_idx), TRUE, e.victim,
                                 e.wrote, e.werr, FALSE)
    ELSE Outcome(touch(bp, frame_idx), TRUE, NoFid, {}, {}, FALSE)

\* A put_page that gets the page and leaves its data alone.
put_page_untouched(bp, sz, ev, frame_idx, data, draws, wok, rok) ==
    get_page(bp, sz, ev, frame_idx, draws, wok, rok)

\* put_page: get_page, then with_data on the page it returned
put_page(bp, sz, ev, frame_idx, data, draws, wok, rok) ==
    LET g == get_page(bp, sz, ev, frame_idx, draws, wok, rok)
    IN IF ~g.ok THEN g
       ELSE LET sid == g.bp.frame2buf[frame_idx]
            IN [g EXCEPT !.bp.pages[sid + 1] = Some(with_data(@[1], data))]

\* A sync_index that returns Ok without the put_frame.
sync_index_unwritten(bp, frame_idx, wok) ==
    Outcome(bp, TRUE, NoFid, {}, {}, FALSE)

\* A sync_index that writes the frame whether it is dirty or not.
sync_index_clean_too(bp, frame_idx, wok) ==
    IF frame_idx \notin DOMAIN bp.frame2buf
    THEN Outcome(bp, TRUE, NoFid, {}, {}, FALSE)
    ELSE LET page == bp.pages[bp.frame2buf[frame_idx] + 1][1]
         IN Outcome([bp EXCEPT !.frame_pool = put_frame(@, frame_idx, page.data)],
                    TRUE, NoFid, {frame_idx}, {}, FALSE)

\* sync_index.  wok: put_frame returns Ok.
sync_index(bp, frame_idx, wok) ==
    IF frame_idx \notin DOMAIN bp.frame2buf
    THEN Outcome(bp, TRUE, NoFid, {}, {}, FALSE)
    ELSE LET buf_idx == bp.frame2buf[frame_idx]
         IN IF bp.pages[buf_idx + 1] = None
            THEN Outcome(bp, FALSE, NoFid, {}, {}, FALSE)
            ELSE LET page == bp.pages[buf_idx + 1][1]
                 IN IF ~is_dirty(page)
                    THEN Outcome(bp, TRUE, NoFid, {}, {}, FALSE)
                    ELSE IF ~wok
                    THEN Outcome(bp, FALSE, NoFid, {}, {frame_idx}, FALSE)
                    ELSE Outcome(
                           [bp EXCEPT !.frame_pool = put_frame(@, frame_idx, page.data)],
                           TRUE, NoFid, {frame_idx}, {}, FALSE)

RECURSIVE flush_loop_keeps_dirty(_, _, _, _, _)
\* A flush_all loop that writes the dirty frames and leaves them dirty.
flush_loop_keeps_dirty(bp, slots, k, wfail, wrote) ==
    IF k > Len(slots) THEN Outcome(bp, TRUE, NoFid, wrote, {}, FALSE)
    ELSE LET buf_idx == slots[k]
             frame_idx == bp.buf2frame[buf_idx]
             page == bp.pages[buf_idx + 1][1]
         IN IF ~is_dirty(page)
            THEN flush_loop_keeps_dirty(bp, slots, k + 1, wfail, wrote)
            ELSE IF frame_idx \in wfail
            THEN Outcome(bp, FALSE, NoFid, wrote, {frame_idx}, FALSE)
            ELSE flush_loop_keeps_dirty(
                   [bp EXCEPT !.frame_pool = put_frame(@, frame_idx, page.data)],
                   slots, k + 1, wfail, wrote \cup {frame_idx})

RECURSIVE flush_loop_cleans_unwritten(_, _, _, _, _)
\* A flush_all loop that marks a frame clean although its put_frame failed.
flush_loop_cleans_unwritten(bp, slots, k, wfail, wrote) ==
    IF k > Len(slots) THEN Outcome(bp, TRUE, NoFid, wrote, {}, FALSE)
    ELSE LET buf_idx == slots[k]
             frame_idx == bp.buf2frame[buf_idx]
         IN IF bp.pages[buf_idx + 1] = None
            THEN flush_loop_cleans_unwritten(bp, slots, k + 1, wfail, wrote)
            ELSE LET page == bp.pages[buf_idx + 1][1]
                     cleaned == [bp EXCEPT !.pages[buf_idx + 1] = Some(set_dirty(page, FALSE))]
                 IN IF ~is_dirty(page)
                    THEN flush_loop_cleans_unwritten(bp, slots, k + 1, wfail, wrote)
                    ELSE IF frame_idx \in wfail
                    THEN Outcome(cleaned, FALSE, NoFid, wrote, {frame_idx}, FALSE)
                    ELSE flush_loop_cleans_unwritten(
                           [cleaned EXCEPT
                              !.frame_pool = put_frame(@, frame_idx, page.data)],
                           slots, k + 1, wfail, wrote \cup {frame_idx})

RECURSIVE flush_loop(_, _, _, _, _)
\* the for loop of flush_all over buf2frame.clone(), visited in the
\* order `slots`; put_frame fails for the frames in wfail.
flush_loop(bp, slots, k, wfail, wrote) ==
    IF k > Len(slots) THEN Outcome(bp, TRUE, NoFid, wrote, {}, FALSE)
    ELSE LET buf_idx == slots[k]
             frame_idx == bp.buf2frame[buf_idx]
         IN IF bp.pages[buf_idx + 1] = None
            THEN flush_loop(bp, slots, k + 1, wfail, wrote)
            ELSE LET page == bp.pages[buf_idx + 1][1]
                 IN IF ~is_dirty(page)
                    THEN flush_loop(bp, slots, k + 1, wfail, wrote)
                    ELSE IF frame_idx \in wfail
                    THEN Outcome(bp, FALSE, NoFid, wrote, {frame_idx}, FALSE)
                    ELSE flush_loop(
                           [bp EXCEPT
                              !.frame_pool = put_frame(@, frame_idx, page.data),
                              !.pages[buf_idx + 1] = Some(set_dirty(page, FALSE))],
                           slots, k + 1, wfail, wrote \cup {frame_idx})

flush_all(bp, slots, wfail) == flush_loop(bp, slots, 1, wfail, {})

\* ensure_allocation.  ok: the backing store's resize returns Ok.
ensure_allocation(bp, count, ok) ==
    IF ok
    THEN Outcome([bp EXCEPT !.frame_pool = resize(@, count)], TRUE, NoFid, {}, {}, FALSE)
    ELSE Outcome(bp, FALSE, NoFid, {}, {}, FALSE)

\* --------------------------------------------------------- SlabMapper
\* seq.len().div_ceil(self.stride)
div_ceil(n, d) == (n + d - 1) \div d

RECURSIVE phase1(_, _, _, _, _, _, _)
\* flush, phase 1: put_frame(i, seq[i * stride]) for i in 0..required, up
\* to the first put_frame that fails, which is that of frame p1fail
phase1(pool, st, seq, i, required, p1fail, wrote) ==
    IF i >= required THEN [pool |-> pool, ok |-> TRUE, wrote |-> wrote, werr |-> {}]
    ELSE IF i = p1fail THEN [pool |-> pool, ok |-> FALSE, wrote |-> wrote, werr |-> {i}]
    ELSE phase1(put_frame(pool, i, seq[i * st + 1]), st, seq, i + 1, required,
                p1fail, wrote \cup {i})

RECURSIVE phase2(_, _, _, _, _, _, _, _, _)
\* flush, phase 2: put_page(i, seq[i * stride]) for i in 0..required, the
\* errors collected in buffer_errors.  The write-back of a victim fails
\* in the put_page of the frames wfail, the load in that of rfail.
phase2(bp, sz, st, seq, i, required, wfail, rfail, acc) ==
    IF i >= required
    THEN [bp |-> bp, ok |-> acc.buffer_errors = {}, victim |-> NoFid,
          wrote |-> acc.wrote, werr |-> acc.werr, rerr |-> acc.rerr,
          p1err |-> {}, buffer_errors |-> acc.buffer_errors]
    ELSE LET p == put_page(bp, sz, "bottom_evictor", i, seq[i * st + 1], <<>>,
                           i \notin wfail, i \notin rfail)
         IN phase2(p.bp, sz, st, seq, i + 1, required, wfail, rfail,
                   [buffer_errors |-> acc.buffer_errors \cup (IF p.ok THEN {} ELSE {i}),
                    wrote |-> acc.wrote \cup p.wrote,
                    werr |-> acc.werr \cup p.werr,
                    rerr |-> acc.rerr \/ p.rerr])

\* A flush that goes on to phase 2 after a put_frame of phase 1 failed.
SlabMapper_flush_through(bp, sz, st, seq, aok, p1fail, wfail, rfail) ==
    LET none == [bp |-> bp, ok |-> TRUE, victim |-> NoFid, wrote |-> {},
                 werr |-> {}, rerr |-> FALSE, p1err |-> {}, buffer_errors |-> {}]
    IN IF seq = <<>> THEN none
       ELSE LET required_allocation == div_ceil(Len(seq), st)
                a == ensure_allocation(bp, required_allocation, aok)
            IN IF ~a.ok THEN [none EXCEPT !.ok = FALSE]
               ELSE LET w == phase1(a.bp.frame_pool, st, seq, 0,
                                    required_allocation, p1fail, {})
                        b == [a.bp EXCEPT !.frame_pool = w.pool]
                        r == phase2(b, sz, st, seq, 0, required_allocation,
                                    wfail, rfail,
                                    [buffer_errors |-> {}, wrote |-> w.wrote,
                                     werr |-> {}, rerr |-> FALSE])
                    IN IF ~w.ok
                       THEN [r EXCEPT !.ok = FALSE, !.p1err = w.werr,
                                      !.werr = @ \cup w.werr]
                       ELSE r

\* SlabMapper::flush.  aok: the store's resize returns Ok.  p1err: the
\* frame whose put_frame failed in phase 1.
SlabMapper_flush(bp, sz, st, seq, aok, p1fail, wfail, rfail) ==
    LET none == [bp |-> bp, ok |-> TRUE, victim |-> NoFid, wrote |-> {},
                 werr |-> {}, rerr |-> FALSE, p1err |-> {}, buffer_errors |-> {}]
    IN IF seq = <<>> THEN none
       ELSE LET required_allocation == div_ceil(Len(seq), st)
                a == ensure_allocation(bp, required_allocation, aok)
            IN IF ~a.ok THEN [none EXCEPT !.ok = FALSE]
               ELSE LET w == phase1(a.bp.frame_pool, st, seq, 0,
                                    required_allocation, p1fail, {})
                        b == [a.bp EXCEPT !.frame_pool = w.pool]
                    IN IF ~w.ok
                       THEN [none EXCEPT !.bp = b, !.ok = FALSE,
                                         !.wrote = w.wrote, !.werr = w.werr,
                                         !.p1err = w.werr]
                       ELSE phase2(b, sz, st, seq, 0, required_allocation,
                                   wfail, rfail,
                                   [buffer_errors |-> {}, wrote |-> w.wrote,
                                    werr |-> {}, rerr |-> FALSE])

\* SlabMapper::get, the page it asks the pool for
SlabMapper_get(bp, sz, st, idx, wok, rok) ==
    get_page(bp, sz, "bottom_evictor", idx \div st, <<>>, wok, rok)

\* ------------------------------------------------------------- callers
\* Frame ids a caller asks for: one more than the store can ever hold, so
\* that a request beyond size() exists for every store.
ReqFids == 0 .. MaxFid + 1

\* A call of get_page(fid) that does not find fid among the cached frames,
\* and one that finds every slot taken as well.
Miss(bp, fid) == fid \notin DOMAIN bp.frame2buf
MissFull(bp, sz, fid) ==
    Miss(bp, fid) /\ Cardinality(DOMAIN bp.frame2buf) = sz

\* The inputs of a call are drawn where the call consults them: the draws
\* of the random evictor and the result of the victim's put_frame on a
\* miss in a full pool, the result of get_frame_ref on a miss.
\* Of the draw sequences that make random_evictor return the same result,
\* one is kept.
DrawSeqs(bp, sz, ev, fid) ==
    IF ev = "random_evictor" /\ MissFull(bp, sz, fid)
    THEN LET all == [1 .. sz + 1 -> 0 .. sz - 1]
             results == {random_evictor(bp.pages, d) : d \in all}
         IN {CHOOSE d \in all : random_evictor(bp.pages, d) = r : r \in results}
    ELSE {<<>>}
WriteResults(bp, sz, fid) == IF MissFull(bp, sz, fid) THEN BOOLEAN ELSE {TRUE}
ReadResults(bp, fid) == IF Miss(bp, fid) THEN BOOLEAN ELSE {TRUE}

\* The cached frames that are dirty.
DirtyFids(bp) ==
    {f \in DOMAIN bp.frame2buf :
        LET p == bp.pages[bp.frame2buf[f] + 1] IN p # None /\ is_dirty(p[1])}

RECURSIVE Perms(_)
\* every order in which a HashMap may iterate over the keys S
Perms(S) ==
    IF S = {} THEN {<<>>}
    ELSE UNION {{<<x>> \o p : p \in Perms(S \ {x})} : x \in S}

\* The stores a pool can be created over: resize(n), then put_frame on
\* some of the n frames.
InitPools ==
    UNION {[0 .. n - 1 -> {None} \cup {Some(v) : v \in Values}] : n \in 0 .. MaxFid + 1}

Called(op, fid, o) ==
    [op |-> op, fid |-> fid, ok |-> o.ok, victim |-> o.victim,
     wrote |-> o.wrote, werr |-> o.werr, rerr |-> o.rerr]

Install(o) ==
    /\ pages' = o.bp.pages
    /\ buf2frame' = o.bp.buf2frame
    /\ frame2buf' = o.bp.frame2buf
    /\ lru' = o.bp.lru
    /\ frame_pool' = o.bp.frame_pool

\* Nothing got yet, no frame pinned yet.
NoLog == [order |-> <<>>, pinned |-> FALSE]

Init ==
    /\ size \in Caps
    /\ evictor \in Evictors
    /\ frame_pool \in InitPools
    /\ pages = BufferPool_new(size, frame_pool).pages
    /\ buf2frame = EmptyMap
    /\ frame2buf = EmptyMap
    /\ lru = UniqueStack_new
    /\ handle = None
    /\ expected = [f \in ReqFids |-> get_frame_ref(frame_pool, f)]
    /\ last = [op |-> "new", fid |-> NoFid, ok |-> TRUE, victim |-> NoFid,
               wrote |-> {}, werr |-> {}, rerr |-> FALSE]
    /\ access_log = NoLog
    /\ stride = 0
    /\ iter = None
    /\ arcs = EmptyMap
    /\ snapshot = None
    /\ overflow_checks = TRUE
    /\ threads = <<>>
    /\ mutex = None

\* let page = bp.get_page(fid);
GetPage ==
    \E fid \in ReqFids :
    \E wok \in WriteResults(BP, size, fid), rok \in ReadResults(BP, fid),
       draws \in DrawSeqs(BP, size, evictor, fid) :
        \E o \in {get_page(BP, size, evictor, fid, draws, wok, rok)} :
           /\ Install(o)
           /\ handle' = IF o.ok THEN Some(o.bp.frame2buf[fid]) ELSE None
           /\ last' = Called("get_page", fid, o)
           /\ UNCHANGED <<size, evictor, stride, iter, frame_level, expected, access_log>>

\* bp.put_page(fid, v)
PutPage ==
    \E fid \in ReqFids, v \in Values :
    \E wok \in WriteResults(BP, size, fid), rok \in ReadResults(BP, fid),
       draws \in DrawSeqs(BP, size, evictor, fid) :
        \E o \in {put_page(BP, size, evictor, fid, v, draws, wok, rok)} :
           /\ Install(o)
           /\ handle' = None
           /\ expected' = IF o.ok THEN [expected EXCEPT ![fid] = Some(v)] ELSE expected
           /\ last' = Called("put_page", fid, o)
           /\ UNCHANGED <<size, evictor, stride, iter, frame_level, access_log>>

\* bp.sync_index(fid)
SyncIndex ==
    \E fid \in ReqFids :
    \E wok \in (IF fid \in DirtyFids(BP) THEN BOOLEAN ELSE {TRUE}) :
        \E o \in {sync_index(BP, fid, wok)} :
           /\ Install(o)
           /\ handle' = None
           /\ last' = Called("sync_index", fid, o)
           /\ UNCHANGED <<size, evictor, stride, iter, frame_level, expected, access_log>>

\* bp.flush_all()
FlushAll ==
    \E slots \in Perms(DOMAIN buf2frame), wfail \in SUBSET DirtyFids(BP) :
        \E o \in {flush_all(BP, slots, wfail)} :
           /\ Install(o)
           /\ handle' = None
           /\ last' = Called("flush_all", NoFid, o)
           /\ UNCHANGED <<size, evictor, stride, iter, frame_level, expected, access_log>>

\* bp.ensure_allocation(count); `last` keeps count where the other calls
\* keep their frame id
EnsureAllocation ==
    \E count \in 0 .. MaxResize, ok \in BOOLEAN :
        /\ MemPool_size(frame_pool) + count <= MaxFid + 1
        /\ \E o \in {ensure_allocation(BP, count, ok)} :
              /\ Install(o)
              /\ handle' = None
              /\ last' = Called("ensure_allocation", count, o)
              /\ UNCHANGED <<size, evictor, stride, iter, frame_level, expected, access_log>>

\* The frame behind the handle, and the frame id it caches.
HeldPage == pages[handle[1] + 1][1]
HeldFid == buf2frame[handle[1]]

OnHandle(op, page) ==
    /\ pages' = [pages EXCEPT ![handle[1] + 1] = Some(page)]
    /\ last' = [op |-> op, fid |-> HeldFid, ok |-> TRUE, victim |-> NoFid,
                wrote |-> {}, werr |-> {}, rerr |-> FALSE]
    /\ UNCHANGED <<size, evictor, stride, iter, frame_level, buf2frame, frame2buf, lru, frame_pool, handle>>

\* page.pin()
Pin ==
    /\ handle # None
    /\ HeldPage.pins < MaxPins
    /\ OnHandle("pin", pin(HeldPage))
    /\ UNCHANGED <<expected, access_log>>

\* page.unpin(), by a caller that pinned before
Unpin ==
    /\ handle # None
    /\ HeldPage.pins > 0
    /\ OnHandle("unpin", unpin(HeldPage))
    /\ UNCHANGED <<expected, access_log>>

\* page.with_data(|d| *d = v)
WithData ==
    /\ handle # None
    /\ \E v \in Values :
          /\ OnHandle("with_data", with_data(HeldPage, v))
          /\ expected' = [expected EXCEPT ![HeldFid] = Some(v)]
          /\ UNCHANGED access_log

Next ==
    \/ GetPage
    \/ PutPage
    \/ SyncIndex
    \/ FlushAll
    \/ EnsureAllocation
    \/ Pin
    \/ Unpin
    \/ WithData

Spec == Init /\ [][Next]_vars

\* ------------------------------------------- callers that get and pin
\* A pool with the bottom-up policy over a store whose frames are all
\* populated; the caller gets frames, pins and unpins them, and notes the
\* order of the gets that returned a frame.
LruFids == 0 .. LruMaxFid

\* fid moved to the end of the frames got so far
Noted(order, fid) == SelectSeq(order, LAMBDA f : f # fid) \o <<fid>>

LruInit ==
    /\ size \in 1 .. LruMaxCap
    /\ evictor = "bottom_evictor"
    /\ frame_pool = [f \in LruFids |-> Some(0)]
    /\ pages = BufferPool_new(size, frame_pool).pages
    /\ buf2frame = EmptyMap
    /\ frame2buf = EmptyMap
    /\ lru = UniqueStack_new
    /\ handle = None
    /\ expected = [f \in ReqFids |-> None]
    /\ last = [op |-> "new", fid |-> NoFid, ok |-> TRUE, victim |-> NoFid,
               wrote |-> {}, werr |-> {}, rerr |-> FALSE]
    /\ access_log = NoLog
    /\ stride = 0
    /\ iter = None
    /\ arcs = EmptyMap
    /\ snapshot = None
    /\ overflow_checks = TRUE
    /\ threads = <<>>
    /\ mutex = None

\* let page = bp.get_page(fid);
LruGet ==
    \E fid \in LruFids :
    \E o \in {get_page(BP, size, evictor, fid, <<>>, TRUE, TRUE)} :
        /\ Install(o)
        /\ handle' = IF o.ok THEN Some(o.bp.frame2buf[fid]) ELSE None
        /\ last' = Called("get_page", fid, o)
        /\ access_log' = IF o.ok
                         THEN [access_log EXCEPT !.order = Noted(@, fid)]
                         ELSE access_log
        /\ UNCHANGED <<size, evictor, stride, iter, frame_level, expected>>

\* page.pin()
LruPin ==
    /\ handle # None
    /\ HeldPage.pins < MaxPins
    /\ OnHandle("pin", pin(HeldPage))
    /\ access_log' = [access_log EXCEPT !.pinned = TRUE]
    /\ UNCHANGED expected

\* page.unpin(), by a caller that pinned before
LruUnpin ==
    /\ handle # None
    /\ HeldPage.pins > 0
    /\ OnHandle("unpin", unpin(HeldPage))
    /\ UNCHANGED <<expected, access_log>>

LruNext ==
    \/ LruGet
    \/ LruPin
    \/ LruUnpin

SpecLRU == LruInit /\ [][LruNext]_vars

\* --------------------------------- callers that reopen the pool
\* A caller of the pool who, at times, writes a frame, syncs it, drops the
\* pool and reads the frame through a new pool over the same store:
\*   bp.put_page(fid, v); bp.sync_index(fid);
\*   BufferPool::new(sz, pool, ev).get_page(fid)
\* The store answers the read of the new pool.  Dropping the pool drops
\* the cached frames unwritten, so the plain map restarts from the store.
RoundTrip ==
    \E fid \in ReqFids, v \in Values, sz \in Caps, ev \in Evictors :
    \E wok \in WriteResults(BP, size, fid), rok \in ReadResults(BP, fid),
       draws \in DrawSeqs(BP, size, evictor, fid) :
        \E p \in {put_page(BP, size, evictor, fid, v, draws, wok, rok)} :
        \E swok \in (IF fid \in DirtyFids(p.bp) THEN BOOLEAN ELSE {TRUE}) :
        \E s \in {sync_index(p.bp, fid, swok)} :
        \E g \in {get_page(BufferPool_new(sz, s.bp.frame_pool), sz, ev, fid,
                           <<>>, TRUE, TRUE)} :
           /\ Install(g)
           /\ size' = sz
           /\ evictor' = ev
           /\ handle' = IF g.ok THEN Some(g.bp.frame2buf[fid]) ELSE None
           /\ expected' = [f \in ReqFids |-> get_frame_ref(g.bp.frame_pool, f)]
           /\ last' = [op |-> "round_trip", fid |-> fid, ok |-> g.ok,
                       victim |-> p.victim, wrote |-> p.wrote \cup s.wrote,
                       werr |-> p.werr \cup s.werr, rerr |-> p.rerr,
                       data |-> v, put_ok |-> p.ok, sync_ok |-> s.ok,
                       below |-> fid < MemPool_size(frame_pool)]
           /\ UNCHANGED <<frame_level, access_log, stride, iter>>

TripNext ==
    \/ Next
    \/ RoundTrip

SpecTrip == Init /\ [][TripNext]_vars

\* ------------------------------------- callers that traverse the pool
\* `for data in &mut bp`, after any use of the pool.  The traversal
\* borrows the pool for good: from into_iter on, only next() runs.
\* items are the values the loop body received, done says that next()
\* returned None, which ends the loop.
into_iter(bp) ==
    [current_index |-> 0, total_size |-> MemPool_size(bp.frame_pool),
     items |-> <<>>, done |-> FALSE]

\* Iterator::next; o is the outcome of its get_page
next(it, o) ==
    IF o.ok
    THEN [it EXCEPT !.current_index = @ + 1,
                    !.items = Append(@, o.bp.pages[o.bp.frame2buf[it.current_index] + 1][1].data)]
    ELSE [it EXCEPT !.current_index = @ + 1, !.done = TRUE]

\* let it = (&mut bp).into_iter();
IntoIter ==
    /\ iter = None
    /\ iter' = Some(into_iter(BP))
    /\ handle' = None
    /\ last' = [op |-> "into_iter", fid |-> NoFid, ok |-> TRUE, victim |-> NoFid,
                wrote |-> {}, werr |-> {}, rerr |-> FALSE]
    /\ UNCHANGED <<frame_level, size, evictor, stride, pages, buf2frame, frame2buf, lru,
                   frame_pool, expected, access_log>>

\* it.next(), past the last frame: returns None before any get_page
IterEnd ==
    /\ iter # None
    /\ ~iter[1].done
    /\ iter[1].current_index >= iter[1].total_size
    /\ iter' = Some([iter[1] EXCEPT !.done = TRUE])
    /\ last' = [op |-> "next", fid |-> NoFid, ok |-> FALSE, victim |-> NoFid,
                wrote |-> {}, werr |-> {}, rerr |-> FALSE]
    /\ UNCHANGED <<frame_level, size, evictor, stride, pages, buf2frame, frame2buf, lru,
                   frame_pool, handle, expected, access_log>>

\* it.next(), on a frame below total_size
IterNext ==
    /\ iter # None
    /\ ~iter[1].done
    /\ iter[1].current_index < iter[1].total_size
    /\ \E fid \in {iter[1].current_index} :
       \E wok \in WriteResults(BP, size, fid), rok \in ReadResults(BP, fid),
          draws \in DrawSeqs(BP, size, evictor, fid) :
           \E o \in {get_page(BP, size, evictor, fid, draws, wok, rok)} :
              /\ Install(o)
              /\ iter' = Some(next(iter[1], o))
              /\ last' = Called("next", fid, o)
              /\ UNCHANGED <<frame_level, size, evictor, stride, handle, expected, access_log>>

IterCalls ==
    \/ iter = None /\ Next
    \/ IntoIter
    \/ IterNext
    \/ IterEnd

SpecIter == Init /\ [][IterCalls]_vars

\* ------------------------------------------ callers of a SlabMapper
\* SlabMapper::new(size, &mut MemPool::new(), stride), then load, flush
\* and get in any order.  The store's failures are drawn where flush
\* consults the store: resize, then phase 1 when resize returned Ok, then
\* phase 2 when no put_frame of phase 1 failed.  The plain map holds, for each frame, the element
\* of the last flush that returned Ok, and None for a frame whose last
\* flush returned Err.
SlabSeqs == UNION {[1 .. n -> Values] : n \in 0 .. SlabMaxSeq}

SlabInit ==
    /\ size \in Caps
    /\ evictor = "bottom_evictor"
    /\ stride \in 1 .. MaxStride
    /\ frame_pool = EmptyMap
    /\ pages = BufferPool_new(size, frame_pool).pages
    /\ buf2frame = EmptyMap
    /\ frame2buf = EmptyMap
    /\ lru = UniqueStack_new
    /\ handle = None
    /\ expected = [f \in 0 .. SlabMaxFrames |-> None]
    /\ last = [op |-> "new", fid |-> NoFid, ok |-> TRUE, victim |-> NoFid,
               wrote |-> {}, werr |-> {}, rerr |-> FALSE]
    /\ access_log = NoLog
    /\ iter = None
    /\ arcs = EmptyMap
    /\ snapshot = None
    /\ overflow_checks = TRUE
    /\ threads = <<>>
    /\ mutex = None

\* mapper.load()
SlabLoad ==
    \E ok \in BOOLEAN :
    \E o \in {ensure_allocation(BP, 0, ok)} :
        /\ Install(o)
        /\ last' = Called("load", NoFid, o)
        /\ UNCHANGED <<size, evictor, stride, iter, frame_level, handle, expected, access_log>>

\* mapper.flush(seq)
SlabFlush ==
    \E seq \in SlabSeqs :
    \E required \in {div_ceil(Len(seq), stride)} :
    \E aok \in (IF seq = <<>> THEN {TRUE} ELSE BOOLEAN) :
    \E p1fail \in (IF aok THEN 0 .. required ELSE {required}) :
    \E wfail \in (IF aok /\ p1fail = required THEN SUBSET (0 .. required - 1) ELSE {{}}),
       rfail \in (IF aok /\ p1fail = required THEN SUBSET (0 .. required - 1) ELSE {{}}) :
        /\ MemPool_size(frame_pool) + required <= SlabMaxFrames
        /\ \E o \in {SlabMapper_flush(BP, size, stride, seq, aok, p1fail, wfail, rfail)} :
              /\ Install(o)
              /\ expected' =
                    IF seq = <<>> \/ ~aok THEN expected
                    ELSE [f \in DOMAIN expected |->
                             IF f >= required THEN expected[f]
                             ELSE IF o.ok THEN Some(seq[f * stride + 1])
                             ELSE None]
              /\ last' = [op |-> "flush", fid |-> required, ok |-> o.ok,
                          victim |-> NoFid, wrote |-> o.wrote, werr |-> o.werr,
                          rerr |-> o.rerr, p1err |-> o.p1err]
              /\ UNCHANGED <<size, evictor, stride, iter, frame_level, handle, access_log>>

\* mapper.get(idx)
SlabGet ==
    \E idx \in 0 .. SlabMaxSeq :
    \E fid \in {idx \div stride} :
    \E wok \in WriteResults(BP, size, fid), rok \in ReadResults(BP, fid) :
        \E o \in {SlabMapper_get(BP, size, stride, idx, wok, rok)} :
           /\ Install(o)
           /\ last' = Called("get", fid, o)
           /\ UNCHANGED <<size, evictor, stride, iter, frame_level, handle, expected, access_log>>

SlabNext ==
    \/ SlabLoad
    \/ SlabFlush
    \/ SlabGet

SpecSlab == SlabInit /\ [][SlabNext]_vars

\* ============================================== UniqueStack by itself
\* UniqueStack::new(), then push, delete and pop of keys in any order.
\* The last call is kept with the order it was made on.
StackKeys == 0 .. StackMaxKey

StackCalled(op, key, item) ==
    [op |-> op, fid |-> key, ok |-> TRUE, victim |-> NoFid, wrote |-> {},
     werr |-> {}, rerr |-> FALSE, item |-> item, before |-> lru.order]

StackInit ==
    /\ lru = UniqueStack_new
    /\ last = [op |-> "new", fid |-> NoFid, ok |-> TRUE, victim |-> NoFid,
               wrote |-> {}, werr |-> {}, rerr |-> FALSE, item |-> None,
               before |-> <<>>]
    /\ size = 0
    /\ evictor = "bottom_evictor"
    /\ pages = <<>>
    /\ buf2frame = EmptyMap
    /\ frame2buf = EmptyMap
    /\ frame_pool = EmptyMap
    /\ handle = None
    /\ expected = EmptyMap
    /\ access_log = NoLog
    /\ stride = 0
    /\ iter = None
    /\ arcs = EmptyMap
    /\ snapshot = None
    /\ overflow_checks = TRUE
    /\ threads = <<>>
    /\ mutex = None

StackKept ==
    <<size, evictor, pages, buf2frame, frame2buf, frame_pool, handle, expected,
      access_log, stride, iter, frame_level>>

StackPush ==
    \E k \in StackKeys :
        /\ lru' = UniqueStack_push(lru, k)
        /\ last' = StackCalled("push", k, None)
        /\ UNCHANGED StackKept

StackDelete ==
    \E k \in StackKeys :
        /\ lru' = UniqueStack_delete(lru, k)
        /\ last' = StackCalled("delete", k, None)
        /\ UNCHANGED StackKept

StackPop ==
    \E o \in {UniqueStack_pop(lru)} :
        /\ lru' = o.st
        /\ last' = StackCalled("pop", NoFid, o.item)
        /\ UNCHANGED StackKept

StackNext ==
    \/ StackPush
    \/ StackDelete
    \/ StackPop

SpecStack == StackInit /\ [][StackNext]_vars

\* ================================================ PageFrame by itself
\* One frame of the store and the PageFrame a pool caches for it, followed
\* Arc by Arc: the store's frame, the cached frame and the caller's
\* snapshot each hold an Arc.  The build is debug (overflow-checks) or
\* release.  A panic ends the run: it unwinds with the frame's mutex
\* held, which poisons it for every later call.  The last call is kept
\* with the strong count and the value of the frame's Arc before it.
FramePage == pages[1][1]
StoreArc == frame_pool[0][1]
Alive == last.op # "panic"

FrameCalled(op, value) ==
    [op |-> op, fid |-> 0, ok |-> TRUE, victim |-> NoFid, wrote |-> {},
     werr |-> {}, rerr |-> FALSE, value |-> value,
     strong |-> arcs[FramePage.data].strong,
     was |-> arcs[FramePage.data].value]

FrameInit ==
    /\ \E v \in Values :
          \E n \in {Arc_new(EmptyMap, v)} :
             /\ frame_pool = insert(EmptyMap, 0, Some(n.arc))
             /\ arcs = Arc_clone(n.heap, n.arc)
             /\ pages = <<Some(new_with_arc(n.arc))>>
    /\ snapshot = None
    /\ overflow_checks \in BOOLEAN
    /\ threads = <<>>
    /\ mutex = None
    /\ size = 1
    /\ evictor = "bottom_evictor"
    /\ buf2frame = insert(EmptyMap, 0, 0)
    /\ frame2buf = insert(EmptyMap, 0, 0)
    /\ lru = UniqueStack_push(UniqueStack_new, 0)
    /\ handle = Some(0)
    /\ expected = EmptyMap
    /\ last = [op |-> "get_page", fid |-> 0, ok |-> TRUE, victim |-> NoFid,
               wrote |-> {}, werr |-> {}, rerr |-> FALSE, value |-> None,
               strong |-> 2, was |-> arcs[FramePage.data].value]
    /\ access_log = [pin |-> 0, unpin |-> 0]
    /\ stride = 0
    /\ iter = None

FrameKept ==
    <<size, evictor, buf2frame, frame2buf, lru, handle, expected, stride, iter,
      overflow_checks, threads, mutex>>

\* page.pin(): pins += 1 panics on overflow in a debug build
FramePin ==
    /\ Alive
    /\ access_log.pin < FrameMaxCalls
    /\ access_log' = [access_log EXCEPT !.pin = @ + 1]
    /\ IF FramePage.pins = -1 /\ overflow_checks
       THEN /\ last' = FrameCalled("panic", None)
            /\ UNCHANGED pages
       ELSE /\ pages' = <<Some(pin(FramePage))>>
            /\ last' = FrameCalled("pin", None)
    /\ UNCHANGED <<FrameKept, arcs, snapshot, frame_pool>>

\* page.unpin(): pins -= 1 panics on overflow in a debug build and wraps
\* in a release build
FrameUnpin ==
    /\ Alive
    /\ access_log.unpin < FrameMaxCalls
    /\ access_log' = [access_log EXCEPT !.unpin = @ + 1]
    /\ IF FramePage.pins = 0 /\ overflow_checks
       THEN /\ last' = FrameCalled("panic", None)
            /\ UNCHANGED pages
       ELSE /\ pages' = <<Some(unpin(FramePage))>>
            /\ last' = FrameCalled("unpin", None)
    /\ UNCHANGED <<FrameKept, arcs, snapshot, frame_pool>>

\* page.set_dirty(d)
FrameSetDirty ==
    \E d \in BOOLEAN :
        /\ Alive
        /\ pages' = <<Some(set_dirty(FramePage, d))>>
        /\ last' = FrameCalled("set_dirty", None)
        /\ UNCHANGED <<FrameKept, arcs, snapshot, frame_pool, access_log>>

\* page.data()
FrameData ==
    /\ Alive
    /\ last' = FrameCalled("data", Some(PageFrame_data(arcs, FramePage)))
    /\ UNCHANGED <<FrameKept, arcs, snapshot, frame_pool, access_log, pages>>

\* page.read_data(|d| d.clone())
FrameReadData ==
    /\ Alive
    /\ last' = FrameCalled("read_data", Some(read_data(arcs, FramePage)))
    /\ UNCHANGED <<FrameKept, arcs, snapshot, frame_pool, access_log, pages>>

\* snapshot = page.get_data_arc(); the Arc the caller held is dropped
FrameGetDataArc ==
    \E g \in {get_data_arc(arcs, FramePage)} :
        /\ Alive
        /\ snapshot' = Some(g.arc)
        /\ arcs' = IF snapshot = None THEN g.heap ELSE Arc_drop(g.heap, snapshot[1])
        /\ last' = FrameCalled("get_data_arc", Some(arcs[g.arc].value))
        /\ UNCHANGED <<FrameKept, frame_pool, access_log, pages>>

\* page.with_data(|d| *d = v), which put_page does to the frame it got
FrameWithData ==
    \E v \in Values :
    \E m \in {make_mut(arcs, FramePage.data, v)} :
        /\ Alive
        /\ arcs' = m.heap
        /\ pages' = <<Some(with_data(FramePage, m.arc))>>
        /\ last' = FrameCalled("with_data", Some(v))
        /\ UNCHANGED <<FrameKept, snapshot, frame_pool, access_log>>

\* page.put(v)
FramePut ==
    \E v \in Values :
    \E r \in {put(arcs, FramePage, v)} :
        /\ Alive
        /\ arcs' = r.heap
        /\ pages' = <<Some(r.page)>>
        /\ last' = FrameCalled("put", Some(v))
        /\ UNCHANGED <<FrameKept, snapshot, frame_pool, access_log>>

\* The write of a dirty frame to the store, as sync_index, flush_all and
\* eviction do it: put_frame(0, page.get_data_arc()).  The store's old
\* frame is dropped with its Arc.
write_back(heap, pool, page) ==
    IF is_dirty(page)
    THEN LET g == get_data_arc(heap, page)
         IN [heap |-> Arc_drop(g.heap, pool[0][1]),
             pool |-> put_frame(pool, 0, g.arc)]
    ELSE [heap |-> heap, pool |-> pool]

\* bp.sync_index(0)
FrameSync ==
    \E w \in {write_back(arcs, frame_pool, FramePage)} :
        /\ Alive
        /\ arcs' = w.heap
        /\ frame_pool' = w.pool
        /\ last' = FrameCalled("sync_index", None)
        /\ UNCHANGED <<FrameKept, snapshot, access_log, pages>>

\* The frame is evicted (written back when dirty, then dropped with its
\* Arc) and loaded again by get_page(0): new_with_arc(get_frame_ref(0)).
FrameReload ==
    \E w \in {write_back(arcs, frame_pool, FramePage)} :
        /\ Alive
        /\ ~is_pinned(FramePage)
        /\ arcs' = Arc_clone(Arc_drop(w.heap, FramePage.data), w.pool[0][1])
        /\ frame_pool' = w.pool
        /\ pages' = <<Some(new_with_arc(w.pool[0][1]))>>
        /\ last' = FrameCalled("evict", None)
        /\ UNCHANGED <<FrameKept, snapshot, access_log>>

\* frame_pool.put_frame(0, Arc::new(v)) by the store's owner
FramePutFrame ==
    \E v \in Values :
    \E n \in {Arc_new(arcs, v)} :
        /\ Alive
        /\ arcs' = Arc_drop(n.heap, StoreArc)
        /\ frame_pool' = put_frame(frame_pool, 0, n.arc)
        /\ last' = FrameCalled("put_frame", Some(v))
        /\ UNCHANGED <<FrameKept, snapshot, access_log, pages>>

FrameNext ==
    \/ FramePin
    \/ FrameUnpin
    \/ FrameSetDirty
    \/ FrameData
    \/ FrameReadData
    \/ FrameGetDataArc
    \/ FrameWithData
    \/ FramePut
    \/ FrameSync
    \/ FrameReload
    \/ FramePutFrame

SpecFrame == FrameInit /\ [][FrameNext]_vars

\* ======================================== one frame shared by threads
\* Arc::new(PageFrame::new(0)) shared by threads that each run a program
\* of calls on it.  Every method starts with self.mutex.lock().unwrap()
\* and holds the guard to its end; what it does to InnerFrame in between
\* is taken a read or a write at a time.  step is 0 outside the methods'
\* bodies and counts the reads and writes inside.
ThreadIds == 1 .. MaxThreads
ThreadKinds == {"worker", "mutator", "observer"}

\* worker: the thread of test_page_frame_thread_safety; mutator:
\* with_data(|d| *d += 1); observer: data(), then is_dirty()
Program(kind) ==
    CASE kind = "worker" -> <<"pin", "put", "unpin">>
      [] kind = "mutator" -> <<"with_data">>
      [] kind = "observer" -> <<"data", "is_dirty">>

Finished(th) == th.call > Len(Program(th.kind))
Current(th) == Program(th.kind)[th.call]
InBody(t, method, step) ==
    /\ ~Finished(threads[t])
    /\ Current(threads[t]) = method
    /\ threads[t].step = step

\* A lock() that does not wait for the holder.
can_lock_always(m, method) == TRUE

\* A lock() that the reading accessors do not wait for.
can_lock_for_reads(m, method) == m = None \/ method \in {"data", "is_dirty"}

\* self.mutex.lock() returns when no thread holds the mutex
can_lock(m, method) == m = None

\* The guard is dropped at the end of the method, and the thread goes on
\* to its next call.
Unlocked(t) == [threads EXCEPT ![t].step = 0, ![t].call = @ + 1]

ThreadsInit ==
    /\ \E n \in {Arc_new(EmptyMap, 0)} :
          /\ arcs = n.heap
          /\ pages = <<Some(new_with_arc(n.arc))>>
    /\ \E N \in 2 .. MaxThreads :
          threads \in [1 .. N -> [kind : ThreadKinds, call : {1}, step : {0},
                                  tmp : {0}, seen : {None}, flag : {None}]]
    /\ mutex = None
    /\ frame_pool = EmptyMap
    /\ snapshot = None
    /\ overflow_checks = TRUE
    /\ size = 1
    /\ evictor = "bottom_evictor"
    /\ buf2frame = EmptyMap
    /\ frame2buf = EmptyMap
    /\ lru = UniqueStack_new
    /\ handle = Some(0)
    /\ expected = EmptyMap
    /\ last = [op |-> "new", fid |-> NoFid, ok |-> TRUE, victim |-> NoFid,
               wrote |-> {}, werr |-> {}, rerr |-> FALSE]
    /\ access_log = NoLog
    /\ stride = 0
    /\ iter = None

ThreadsKept ==
    <<size, evictor, buf2frame, frame2buf, lru, frame_pool, handle, expected,
      last, access_log, stride, iter, snapshot, overflow_checks>>

\* let mut inner = self.mutex.lock().unwrap();
ThreadLock ==
    \E t \in DOMAIN threads :
        /\ ~Finished(threads[t])
        /\ threads[t].step = 0
        /\ can_lock(mutex, Current(threads[t]))
        /\ mutex' = Some(t)
        /\ threads' = [threads EXCEPT ![t].step = 1]
        /\ UNCHANGED <<ThreadsKept, pages, arcs>>

\* inner.pins += 1: the count is read, then written
ThreadPin ==
    \E t \in DOMAIN threads :
        \/ /\ InBody(t, "pin", 1)
           /\ threads' = [threads EXCEPT ![t].step = 2, ![t].tmp = FramePage.pins]
           /\ UNCHANGED <<ThreadsKept, pages, arcs, mutex>>
        \/ /\ InBody(t, "pin", 2)
           /\ pages' = <<Some(pin([FramePage EXCEPT !.pins = threads[t].tmp]))>>
           /\ threads' = Unlocked(t)
           /\ mutex' = None
           /\ UNCHANGED <<ThreadsKept, arcs>>

\* inner.pins -= 1
ThreadUnpin ==
    \E t \in DOMAIN threads :
        \/ /\ InBody(t, "unpin", 1)
           /\ threads' = [threads EXCEPT ![t].step = 2, ![t].tmp = FramePage.pins]
           /\ UNCHANGED <<ThreadsKept, pages, arcs, mutex>>
        \/ /\ InBody(t, "unpin", 2)
           /\ pages' = <<Some(unpin([FramePage EXCEPT !.pins = threads[t].tmp]))>>
           /\ threads' = Unlocked(t)
           /\ mutex' = None
           /\ UNCHANGED <<ThreadsKept, arcs>>

\* frame.put(i): thread t puts the value t
ThreadPut ==
    \E t \in DOMAIN threads :
    \E r \in {put(arcs, FramePage, t)} :
        /\ InBody(t, "put", 1)
        /\ arcs' = r.heap
        /\ pages' = <<Some(r.page)>>
        /\ threads' = Unlocked(t)
        /\ mutex' = None
        /\ UNCHANGED ThreadsKept

\* with_data(|d| *d += 1): the closure reads the value and writes it back
\* through make_mut, then inner.dirty = true
ThreadWithData ==
    \E t \in DOMAIN threads :
        \/ /\ InBody(t, "with_data", 1)
           /\ threads' = [threads EXCEPT ![t].step = 2,
                                         ![t].tmp = PageFrame_data(arcs, FramePage)]
           /\ UNCHANGED <<ThreadsKept, pages, arcs, mutex>>
        \/ /\ InBody(t, "with_data", 2)
           /\ \E m \in {make_mut(arcs, FramePage.data, threads[t].tmp + 1)} :
                 /\ arcs' = m.heap
                 /\ pages' = <<Some([FramePage EXCEPT !.data = m.arc])>>
           /\ threads' = [threads EXCEPT ![t].step = 3]
           /\ UNCHANGED <<ThreadsKept, mutex>>
        \/ /\ InBody(t, "with_data", 3)
           /\ pages' = <<Some(with_data(FramePage, FramePage.data))>>
           /\ threads' = Unlocked(t)
           /\ mutex' = None
           /\ UNCHANGED <<ThreadsKept, arcs>>

\* let d = frame.data();
ThreadData ==
    \E t \in DOMAIN threads :
        /\ InBody(t, "data", 1)
        /\ threads' = [Unlocked(t) EXCEPT ![t].seen = Some(PageFrame_data(arcs, FramePage))]
        /\ mutex' = None
        /\ UNCHANGED <<ThreadsKept, pages, arcs>>

\* let b = frame.is_dirty();
ThreadIsDirty ==
    \E t \in DOMAIN threads :
        /\ InBody(t, "is_dirty", 1)
        /\ threads' = [Unlocked(t) EXCEPT ![t].flag = Some(is_dirty(FramePage))]
        /\ mutex' = None
        /\ UNCHANGED <<ThreadsKept, pages, arcs>>

ThreadsNext ==
    \/ ThreadLock
    \/ ThreadPin
    \/ ThreadUnpin
    \/ ThreadPut
    \/ ThreadWithData
    \/ ThreadData
    \/ ThreadIsDirty

SpecThreads == ThreadsInit /\ [][ThreadsNext]_vars

\* ============================================ the two policies at work
\* A pool with either policy over a store that holds every frame; the
\* caller gets frames and pins, unpins and marks dirty the one it got
\* last.  The store's put_frame and get_frame_ref can fail.  A get_page is kept with the number of draws its random evictor
\* made, 0 when no evictor ran.
EvictInit ==
    /\ size \in 1 .. EvictMaxCap
    /\ evictor \in Evictors
    /\ frame_pool = [f \in 0 .. EvictMaxFid |-> Some(0)]
    /\ pages = BufferPool_new(size, frame_pool).pages
    /\ buf2frame = EmptyMap
    /\ frame2buf = EmptyMap
    /\ lru = UniqueStack_new
    /\ handle = None
    /\ expected = [f \in ReqFids |-> None]
    /\ last = [op |-> "new", fid |-> NoFid, ok |-> TRUE, victim |-> NoFid,
               wrote |-> {}, werr |-> {}, rerr |-> FALSE, draws |-> 0]
    /\ access_log = NoLog
    /\ stride = 0
    /\ iter = None
    /\ arcs = EmptyMap
    /\ snapshot = None
    /\ overflow_checks = TRUE
    /\ threads = <<>>
    /\ mutex = None

\* let page = bp.get_page(fid);
EvictGet ==
    \E fid \in 0 .. EvictMaxFid :
    \E draws \in DrawSeqs(BP, size, evictor, fid) :
    \E wok \in WriteResults(BP, size, fid), rok \in ReadResults(BP, fid) :
    \E o \in {get_page(BP, size, evictor, fid, draws, wok, rok)} :
        /\ Install(o)
        /\ handle' = IF o.ok THEN Some(o.bp.frame2buf[fid]) ELSE None
        /\ last' = [op |-> "get_page", fid |-> fid, ok |-> o.ok,
                    victim |-> o.victim, wrote |-> o.wrote, werr |-> o.werr,
                    rerr |-> o.rerr,
                    draws |-> IF draws = <<>> THEN 0
                              ELSE random_draws(pages, draws, 0)]
        /\ UNCHANGED <<size, evictor, stride, iter, frame_level, expected, access_log>>

\* page.set_dirty(true)
EvictSetDirty ==
    /\ handle # None
    /\ OnHandle("set_dirty", set_dirty(HeldPage, TRUE))
    /\ UNCHANGED <<expected, access_log>>

EvictNext ==
    \/ EvictGet
    \/ EvictSetDirty
    \/ LruPin
    \/ LruUnpin

SpecEvict == EvictInit /\ [][EvictNext]_vars

\* ========================================== a pool of capacity 1 in use
\* BufferPool::new(1, ..) over a store that holds every frame and does not
\* fail; the caller gets frames it has not got before, one after the
\* other.  The log holds the frames in the order they were asked for, and
\* the frames that left the cache, in the order they left it.
SeqFids == 0 .. SeqMaxFid

SeqInit ==
    /\ size = 1
    /\ evictor \in Evictors
    /\ frame_pool = [f \in SeqFids |-> Some(0)]
    /\ pages = BufferPool_new(size, frame_pool).pages
    /\ buf2frame = EmptyMap
    /\ frame2buf = EmptyMap
    /\ lru = UniqueStack_new
    /\ handle = None
    /\ expected = EmptyMap
    /\ last = [op |-> "new", fid |-> NoFid, ok |-> TRUE, victim |-> NoFid,
               wrote |-> {}, werr |-> {}, rerr |-> FALSE]
    /\ access_log = [order |-> <<>>, pinned |-> FALSE, evicted |-> <<>>]
    /\ stride = 0
    /\ iter = None
    /\ arcs = EmptyMap
    /\ snapshot = None
    /\ overflow_checks = TRUE
    /\ threads = <<>>
    /\ mutex = None

\* bp.get_page(fid) of a frame not asked for before
SeqGet ==
    \E fid \in SeqFids :
    \E draws \in DrawSeqs(BP, size, evictor, fid) :
    \E o \in {get_page(BP, size, evictor, fid, draws, TRUE, TRUE)} :
        /\ \A k \in 1 .. Len(access_log.order) : access_log.order[k] # fid
        /\ Install(o)
        /\ handle' = IF o.ok THEN Some(o.bp.frame2buf[fid]) ELSE None
        /\ last' = Called("get_page", fid, o)
        /\ access_log' =
              [access_log EXCEPT
                 !.order = Append(@, fid),
                 !.evicted = @ \o [k \in 1 .. Cardinality(DOMAIN frame2buf \ DOMAIN o.bp.frame2buf)
                                     |-> CHOOSE f \in DOMAIN frame2buf : f \notin DOMAIN o.bp.frame2buf]]
        /\ UNCHANGED <<size, evictor, stride, iter, frame_level, expected>>

SeqNext == SeqGet

SpecSeq == SeqInit /\ [][SeqNext]_vars

\* ==================================================== MemPool by itself
\* MemPool::new(), then put_frame, resize and get_frame_ref in any order
\* and at any index.  The plain map holds what put_frame was given last
\* for each index; the last call is kept with the size it was made at.
MemIdx == 0 .. MemMaxIdx

MemCalled(op, idx, ok) ==
    [op |-> op, fid |-> idx, ok |-> ok, victim |-> NoFid, wrote |-> {},
     werr |-> {}, rerr |-> FALSE, before |-> MemPool_size(frame_pool)]

MemInit ==
    /\ frame_pool = EmptyMap
    /\ expected = EmptyMap
    /\ last = [op |-> "new", fid |-> NoFid, ok |-> TRUE, victim |-> NoFid,
               wrote |-> {}, werr |-> {}, rerr |-> FALSE, before |-> 0]
    /\ size = 0
    /\ evictor = "bottom_evictor"
    /\ pages = <<>>
    /\ buf2frame = EmptyMap
    /\ frame2buf = EmptyMap
    /\ lru = UniqueStack_new
    /\ handle = None
    /\ access_log = NoLog
    /\ stride = 0
    /\ iter = None
    /\ arcs = EmptyMap
    /\ snapshot = None
    /\ overflow_checks = TRUE
    /\ threads = <<>>
    /\ mutex = None

MemKept ==
    <<size, evictor, pages, buf2frame, frame2buf, lru, handle, access_log,
      stride, iter, frame_level>>

\* pool.put_frame(idx, Arc::new(v))
MemPutFrame ==
    \E idx \in MemIdx, v \in Values :
        /\ frame_pool' = put_frame(frame_pool, idx, v)
        /\ expected' = insert(expected, idx, Some(v))
        /\ last' = MemCalled("put_frame", idx, TRUE)
        /\ UNCHANGED MemKept

\* pool.resize(count)
MemResize ==
    \E count \in 0 .. MaxResize + 1 :
        /\ MemPool_size(frame_pool) + count - 1 <= MemMaxIdx
        /\ frame_pool' = resize(frame_pool, count)
        /\ last' = MemCalled("resize", count, TRUE)
        /\ UNCHANGED <<MemKept, expected>>

\* pool.get_frame_ref(idx)
MemGetFrameRef ==
    \E idx \in MemIdx :
        /\ last' = MemCalled("get_frame_ref", idx, get_frame_ref(frame_pool, idx) # None)
        /\ UNCHANGED <<MemKept, expected, frame_pool>>

MemNext ==
    \/ MemPutFrame
    \/ MemResize
    \/ MemGetFrameRef

SpecMem == MemInit /\ [][MemNext]_vars

\* ============================================================= claims
\* The frame cached for frame id f.
CachedPage(f) == pages[frame2buf[f] + 1][1]
Full == Cardinality(DOMAIN frame2buf) = size
AllPinned == \A i \in 1 .. size : pages[i] # None /\ is_pinned(pages[i][1])
PoolFields == <<pages, buf2frame, frame2buf, lru>>

\* C1: after every public operation, whatever it returned, buf2frame and
\* frame2buf have the same number of entries, at most `size` of them, and
\* each map is the inverse of the other.
C1_MapsInverse ==
    /\ Cardinality(DOMAIN buf2frame) = Cardinality(DOMAIN frame2buf)
    /\ Cardinality(DOMAIN frame2buf) <= size
    /\ \A sid \in DOMAIN buf2frame :
          /\ buf2frame[sid] \in DOMAIN frame2buf
          /\ frame2buf[buf2frame[sid]] = sid
    /\ \A fid \in DOMAIN frame2buf :
          /\ frame2buf[fid] \in DOMAIN buf2frame
          /\ buf2frame[frame2buf[fid]] = fid

\* C1 witness: a get_page that evicted a frame and returned None has left
\* maps that still hold an entry.
C1_Witness ==
    /\ last.op = "get_page" /\ ~last.ok /\ last.victim # NoFid
    /\ DOMAIN frame2buf # {}

\* C2: the data of the frame that get_page(fid) returns is the value last
\* written to fid through the pool, or the store's initial content of fid
\* when the pool never wrote it: what the plain map `expected` holds.
C2_TransparentCache ==
    (last.op = "get_page" /\ last.ok) =>
        Some(CachedPage(last.fid).data) = expected[last.fid]

\* C2 witness: a get_page has written a dirty victim back to the store
\* and returned the requested frame, loaded from the store.
C2_Witness ==
    /\ last.op = "get_page" /\ last.ok
    /\ last.victim # NoFid /\ last.wrote = {last.victim}
    /\ expected[last.fid] # None

\* C3: a cached frame with a pin count above 0 is still cached, in the
\* same slot, after any step.
C3_PinnedStays ==
    [][\A f \in DOMAIN frame2buf :
          is_pinned(CachedPage(f)) =>
              /\ f \in DOMAIN frame2buf'
              /\ frame2buf'[f] = frame2buf[f]
              /\ pages'[frame2buf[f] + 1] # None]_vars

\* C3 witness: a frame has been evicted from a pool that holds a pinned
\* frame.
C3_Witness ==
    /\ last.victim # NoFid
    /\ \E f \in DOMAIN frame2buf : is_pinned(CachedPage(f))

\* C4: a step that evicts a dirty frame has written the frame's data to the
\* store at the frame's id, and the write did not fail; a step that evicts
\* a clean frame has not written to the store.
C4_EvictionWriteBack ==
    [][\A f \in DOMAIN frame2buf :
          f \notin DOMAIN frame2buf' =>
              IF is_dirty(CachedPage(f))
              THEN /\ last'.wrote = {f}
                   /\ f \notin last'.werr
                   /\ get_frame_ref(frame_pool', f) = Some(CachedPage(f).data)
              ELSE /\ last'.wrote = {}
                   /\ frame_pool' = frame_pool]_vars

\* C4 witness: a dirty frame has been evicted and its data, which the
\* store did not hold before, is in the store.
C4_Witness ==
    /\ last.victim # NoFid
    /\ last.wrote = {last.victim}
    /\ last.victim \notin DOMAIN frame2buf

RECURSIVE IndexOf(_, _, _)
\* where f stands in a sequence without repetitions, 0 when it does not
IndexOf(seq, f, i) ==
    IF i > Len(seq) THEN 0
    ELSE IF seq[i] = f THEN i
    ELSE IndexOf(seq, f, i + 1)

\* The n frames got most recently.
MostRecent(order, n) ==
    {order[i] : i \in (IF Len(order) > n THEN Len(order) - n + 1 ELSE 1) .. Len(order)}

\* C5, the victim: under the bottom-up policy the frame a get evicts is,
\* of the cached frames that are not pinned, the one whose last successful
\* get is the oldest.
C5_VictimIsOldest ==
    last'.victim # NoFid =>
        LET unpinned == {f \in DOMAIN frame2buf : ~is_pinned(CachedPage(f))}
        IN /\ last'.victim \in unpinned
           /\ \A f \in unpinned :
                 IndexOf(access_log.order, last'.victim, 1)
                     <= IndexOf(access_log.order, f, 1)

\* C5, the cache: as long as no frame was ever pinned, the cached frames are
\* the min(size, number of distinct frames got) frames got most recently.
C5_CacheIsMostRecent ==
    ~access_log.pinned =>
        DOMAIN frame2buf = MostRecent(access_log.order, size)

\* C5: with the bottom-up policy a miss on a full pool evicts the unpinned
\* cached frame whose last successful get is the oldest, and a pool whose
\* frames were never pinned caches exactly the min(size, number of
\* distinct frames got) frames got most recently.
C5_BottomUpIsLru ==
    /\ []C5_CacheIsMostRecent
    /\ [][C5_VictimIsOldest]_vars

\* C5 witness: capacity 3 and the gets 0, 1, 2, 0, 3 have left frames
\* 0, 2 and 3 cached and frame 1 evicted.
C5_Witness ==
    /\ size = 3
    /\ access_log.order = <<1, 2, 0, 3>>
    /\ last.victim = 1
    /\ DOMAIN frame2buf = {0, 2, 3}
    /\ lru.order = <<2, 0, 1>>

\* C6 (as claimed): after sync_index(fid) returns Ok for a cached frame, the
\* frame is not dirty and the store holds the frame's data.
C6_SyncCleans ==
    (last.op = "sync_index" /\ last.ok /\ last.fid \in DOMAIN frame2buf) =>
        /\ ~is_dirty(CachedPage(last.fid))
        /\ get_frame_ref(frame_pool, last.fid) = Some(CachedPage(last.fid).data)

\* C7 (as claimed): a get_page that returns None because get_frame_ref
\* failed leaves the slots, both maps and the recency tracker as they were.
C7_FailedLoadKeepsCache ==
    [][(last'.op = "get_page" /\ ~last'.ok /\ last'.rerr) =>
          UNCHANGED PoolFields]_vars

\* C8: when the put_frame of a dirty victim fails in get_page, get_page
\* returns None, the victim is still cached and dirty, the slots, both
\* maps and the recency order are unchanged, and the requested frame is
\* not cached.
C8_FailedWriteBackKeepsCache ==
    [][(last'.op = "get_page" /\ last'.werr # {}) =>
          /\ ~last'.ok
          /\ UNCHANGED PoolFields
          /\ last'.fid \notin DOMAIN frame2buf'
          /\ \A f \in last'.werr :
                f \in DOMAIN frame2buf' /\ is_dirty(pages'[frame2buf'[f] + 1][1])]_vars

\* C8 witness: a get_page whose victim could not be written back.
C8_Witness ==
    /\ last.op = "get_page" /\ last.werr # {}
    /\ Full

\* C9: with every slot holding a pinned frame, get_page and put_page of a
\* frame that is not cached fail and leave the slots, both maps and the
\* recency order unchanged, under either policy.
C9_AllPinnedMiss ==
    [][(/\ last'.op \in {"get_page", "put_page"}
        /\ AllPinned
        /\ last'.fid \notin DOMAIN frame2buf) =>
          /\ ~last'.ok
          /\ UNCHANGED PoolFields]_vars

\* C9 witness: the random policy was asked for a victim among pinned
\* frames only.
C9_Witness ==
    /\ last.op = "get_page" /\ ~last.ok
    /\ evictor = "random_evictor"
    /\ AllPinned
    /\ last.fid \notin DOMAIN frame2buf
    /\ last.fid <= MemPool_size(frame_pool)

\* C10: get_page(fid) with fid above the size of the store returns None
\* and leaves slots, maps, recency order and store unchanged.
C10_BeyondSize ==
    [][(last'.op = "get_page" /\ last'.fid > MemPool_size(frame_pool)) =>
          /\ ~last'.ok
          /\ UNCHANGED PoolFields
          /\ UNCHANGED frame_pool]_vars

\* C10 witness: the request beyond the size was made of a full pool.
C10_Witness ==
    /\ last.op = "get_page"
    /\ last.fid > MemPool_size(frame_pool)
    /\ Full

\* C11 (as claimed): get_page(fid) with fid at or above the size of the
\* store returns None, loads no frame and evicts none: slots, maps and
\* recency order are unchanged.
C11_AtOrBeyondSize ==
    [][(last'.op = "get_page" /\ last'.fid >= MemPool_size(frame_pool)) =>
          /\ ~last'.ok
          /\ UNCHANGED PoolFields]_vars

\* C12 (as claimed): a put_page that returns NoPageAvailable leaves the
\* slots with their frames' data and dirty flags, both maps and the
\* recency order as they were.
C12_FailedPutKeepsPool ==
    [][(last'.op = "put_page" /\ ~last'.ok) => UNCHANGED PoolFields]_vars

\* C13: a slot holds a frame exactly when its slot id is a key of
\* buf2frame.
C13_OccupiedIffMapped ==
    \A sid \in 0 .. size - 1 : (pages[sid + 1] # None) <=> (sid \in DOMAIN buf2frame)

\* C13 witness: a get_page has evicted a frame and then failed to load, so
\* a slot was emptied and not refilled.
C13_Witness ==
    /\ last.op = "get_page" /\ ~last.ok /\ last.victim # NoFid
    /\ \E sid \in 0 .. size - 1 : pages[sid + 1] = None
    /\ \E sid \in 0 .. size - 1 : pages[sid + 1] # None

\* C14: the slot ids in the recency tracker, in its order and in its
\* membership set, are the keys of buf2frame.
C14_TrackedIffMapped ==
    /\ {lru.order[i] : i \in 1 .. Len(lru.order)} = DOMAIN buf2frame
    /\ lru.unique = DOMAIN buf2frame

\* C14 witness: a frame was evicted and another one loaded into its slot,
\* which the tracker holds.
C14_Witness ==
    /\ last.op \in {"get_page", "put_page"} /\ last.ok /\ last.victim # NoFid
    /\ lru.order = <<frame2buf[last.fid]>>

\* C15, the state a successful flush_all leaves: no cached frame is dirty
\* and the store holds the data of every cached frame at the frame's id.
C15_FlushedState ==
    (last.op = "flush_all" /\ last.ok) =>
        \A f \in DOMAIN frame2buf :
            /\ ~is_dirty(CachedPage(f))
            /\ get_frame_ref(frame_pool, f) = Some(CachedPage(f).data)

\* C15, the clean frames: flush_all does not write a frame that was clean
\* when it was called.
C15_CleanNotWritten ==
    last'.op = "flush_all" =>
        \A f \in DOMAIN frame2buf :
            ~is_dirty(CachedPage(f)) =>
                /\ f \notin last'.wrote
                /\ frame_pool'[f] = frame_pool[f]

C16_FlushAttemptsAll ==
    [][last'.op = "flush_all" =>
          /\ last'.wrote \cup last'.werr = DirtyFids(BP)
          /\ \A f \in DirtyFids(BP) :
                is_dirty(pages'[frame2buf[f] + 1][1]) <=> f \notin last'.wrote]_vars

\* C17: sync_index and flush_all leave both maps and the recency order
\* as they are, every slot as empty or occupied as it is, and every cached
\* frame with its data and pin count; sync_index of a frame that is not
\* cached, or cached and clean, returns Ok and does not write to the store.
C17_SyncKeepsCache ==
    [][last'.op \in {"sync_index", "flush_all"} =>
          /\ UNCHANGED <<buf2frame, frame2buf, lru>>
          /\ \A i \in 1 .. size :
                /\ (pages'[i] = None) <=> (pages[i] = None)
                /\ pages[i] # None =>
                      /\ pages'[i][1].data = pages[i][1].data
                      /\ pages'[i][1].pins = pages[i][1].pins
          /\ (/\ last'.op = "sync_index"
              /\ \/ last'.fid \notin DOMAIN frame2buf
                 \/ ~is_dirty(CachedPage(last'.fid))) =>
                /\ last'.ok
                /\ last'.wrote = {}
                /\ UNCHANGED frame_pool]_vars

\* C17 witness: sync_index of a cached clean frame, next to a pinned one.
C17_Witness ==
    /\ last.op = "sync_index" /\ last.ok
    /\ last.fid \in DOMAIN frame2buf
    /\ ~is_dirty(CachedPage(last.fid))
    /\ \E f \in DOMAIN frame2buf : is_pinned(CachedPage(f))

\* C18 (as claimed): for fid below the size of the store, after
\* put_page(fid, v) and a sync_index(fid) that returned Ok, get_page(fid)
\* of a new pool over the same store returns a frame that holds v.
C18_RoundTripBelowSize ==
    (last.op = "round_trip" /\ last.below /\ last.sync_ok) =>
        /\ last.ok
        /\ CachedPage(last.fid).data = last.data

\* C18: after a put_page(fid, v) that returned Ok and a sync_index(fid)
\* that returned Ok, get_page(fid) of a new pool over the same store
\* returns a frame that holds v.
C18_RoundTrip ==
    (last.op = "round_trip" /\ last.put_ok /\ last.sync_ok) =>
        /\ last.ok
        /\ CachedPage(last.fid).data = last.data

\* C18 witness: the round trip of a value that put_page stored after it
\* evicted a frame, and that sync_index wrote.
C18_Witness ==
    /\ last.op = "round_trip" /\ last.put_ok /\ last.sync_ok
    /\ last.fid \in last.wrote
    /\ last.victim # NoFid
    /\ last.ok

\* C19 (as claimed): when the traversal has ended, it has yielded one item
\* for each of the total_size frames the store had when it started, the
\* item for frame k being the data of frame k.
C19_FullTraversal ==
    (iter # None /\ iter[1].done) =>
        /\ Len(iter[1].items) = iter[1].total_size
        /\ \A k \in 1 .. Len(iter[1].items) : Some(iter[1].items[k]) = expected[k - 1]

\* C20 witness: with stride 2, a get of frame 1 has evicted frame 0, both
\* written by a flush, and returned the sequence's element 1 at index 2.
C20_Witness ==
    /\ last.op = "get" /\ last.ok
    /\ stride = 2 /\ last.fid = 1
    /\ last.victim = 0
    /\ expected[1] = Some(1)
    /\ last.werr = {} /\ ~last.rerr

\* C20: a get of the mapper that the store does not fail returns, for a
\* frame that the last flush wrote and that returned Ok, the element of
\* that flush's sequence at the frame's first index.
C20_StrideRoundTrip ==
    (/\ last.op = "get"
     /\ expected[last.fid] # None
     /\ last.werr = {} /\ ~last.rerr) =>
        /\ last.ok
        /\ Some(CachedPage(last.fid).data) = expected[last.fid]

\* ------------------------------------------------- SlabMapper::flush
\* C21: after a flush that returned Ok, the store holds, at every frame
\* id below ceil(|seq| / stride), the sequence's element at that frame's
\* first index.
C21_StoreHoldsSeq ==
    (last.op = "flush" /\ last.ok) =>
        \A f \in 0 .. last.fid - 1 : get_frame_ref(frame_pool, f) = expected[f]

\* C22: a flush that returned Ok leaves the store with the frames it
\* had when it had at least ceil(|seq| / stride) of them, so that the
\* store's size after the flush is the larger of the two numbers.
C22_EnsureIdempotent ==
    [][(last'.op = "flush" /\ last'.ok /\ last'.fid > 0) =>
          MemPool_size(frame_pool') =
             IF MemPool_size(frame_pool) >= last'.fid
             THEN MemPool_size(frame_pool) ELSE last'.fid]_vars

\* C23 witness: the second put_frame of phase 1 failed in a pool that
\* caches a dirty frame.
C23_Witness ==
    /\ last.op = "flush" /\ last.p1err = {1}
    /\ \E f \in DOMAIN frame2buf : is_dirty(CachedPage(f))

\* C23: a flush in which a put_frame of phase 1 failed returns Err and
\* leaves the pool's slots, maps and recency order as they were.
C23_Phase1Aborts ==
    [][(last'.op = "flush" /\ last'.p1err # {}) =>
          /\ ~last'.ok
          /\ UNCHANGED PoolFields]_vars

\* ------------------------------------------------------- UniqueStack
\* The items of a vector, and a vector without an item.
Items(order) == {order[i] : i \in 1 .. Len(order)}
Without(order, k) == LET Other(x) == x # k IN SelectSeq(order, Other)

\* C24 witness: a push of the bottom item of a stack of three.
C24_Witness ==
    /\ last.op = "push"
    /\ Len(last.before) = 3 /\ last.before[1] = last.fid

\* C24: after push(k), k is in the stack once and is its top, the other
\* items are those of before in the order of before, and the length
\* has grown by one if k was absent and not at all if it was present.
C24_PushMovesToTop ==
    last.op = "push" =>
        /\ Cardinality({i \in 1 .. Len(lru.order) : lru.order[i] = last.fid}) = 1
        /\ top(lru) = Some(last.fid)
        /\ contains(lru, last.fid)
        /\ Without(lru.order, last.fid) = Without(last.before, last.fid)
        /\ len(lru) = IF last.fid \in Items(last.before)
                      THEN Len(last.before) ELSE Len(last.before) + 1

\* C25 witness: a pop has taken the top of a stack of three whose top
\* was pushed after a larger key.
C25_Witness ==
    /\ last.op = "pop" /\ last.item # None
    /\ Len(last.before) = 3
    /\ last.before[3] < last.before[1]

\* C25: no key is twice in the order vector, and the vector and the
\* membership set hold the same keys: contains(k) is k being in order(),
\* and len() is the number of members.
C25_OrderMatchesSet ==
    /\ \A i, j \in 1 .. Len(lru.order) : lru.order[i] = lru.order[j] => i = j
    /\ \A k \in StackKeys : contains(lru, k) <=> k \in Items(lru.order)
    /\ lru.unique \subseteq StackKeys
    /\ len(lru) = Cardinality(lru.unique)

\* C26 witness: a delete of the middle item of a stack of three.
C26_Witness ==
    /\ last.op = "delete"
    /\ Len(last.before) = 3 /\ last.before[2] = last.fid

\* C26: delete(k) of a present k removes it and keeps the other items in
\* their order; delete(k) of an absent k changes nothing.
C26_DeleteKeepsOrder ==
    last.op = "delete" =>
        /\ ~contains(lru, last.fid)
        /\ lru.order = Without(last.before, last.fid)
        /\ last.fid \notin Items(last.before) => lru.order = last.before
        /\ lru.unique = Items(last.before) \ {last.fid}

\* --------------------------------------------------------- PageFrame
\* C27: the frame is pinned exactly when pin() was called more often
\* than unpin(): the count does not go below zero, and an unpin() of a
\* frame whose count is 0 does not leave it pinned.
C27_PinnedIffMorePins ==
    is_pinned(FramePage) <=> access_log.pin > access_log.unpin

\* C28 witness: a with_data wrote the value the frame already had, to
\* an Arc nobody shared.
C28_Witness ==
    /\ last.op = "with_data"
    /\ last.strong = 1
    /\ last.value = Some(last.was)

\* C28: a with_data leaves the frame dirty, whatever its closure wrote;
\* read_data, data and get_data_arc leave the dirty flag as it was.
C28_WithDataMarksDirty ==
    [][/\ last'.op = "with_data" => is_dirty(pages'[1][1])
       /\ last'.op \in {"read_data", "data", "get_data_arc"} =>
              is_dirty(pages'[1][1]) = is_dirty(pages[1][1])]_vars

\* C29: after PageFrame::put the frame is dirty.
C29_PutMarksDirty ==
    last.op = "put" => is_dirty(FramePage)

\* C30 witness: a with_data wrote a new value to a frame whose Arc the
\* store and the caller's snapshot shared.
C30_Witness ==
    /\ last.op = "with_data"
    /\ last.strong = 3
    /\ snapshot # None
    /\ arcs[snapshot[1]].value # last.value[1]

\* C30: a with_data changes neither the value behind a snapshot taken
\* before nor the value of the store's frame; the store's frame changes
\* value only in a write to the store (sync_index, eviction write-back,
\* put_frame).
C30_CopyOnWrite ==
    [][/\ last'.op = "with_data" =>
             /\ snapshot # None =>
                    arcs'[snapshot[1]].value = arcs[snapshot[1]].value
             /\ arcs'[frame_pool'[0][1]].value = arcs[frame_pool[0][1]].value
       /\ arcs'[frame_pool'[0][1]].value # arcs[frame_pool[0][1]].value =>
             last'.op \in {"sync_index", "evict", "put_frame"}
       /\ snapshot' = snapshot =>
             (snapshot # None =>
                 arcs'[snapshot[1]].value = arcs[snapshot[1]].value)]_vars

\* ----------------------------------------------------------- threads
AllDone == threads # <<>> /\ \A t \in DOMAIN threads : Finished(threads[t])
Only(kinds) == \A t \in DOMAIN threads : threads[t].kind \in kinds
Between(t) == threads[t].kind = "worker" /\ threads[t].call \in {2, 3}

\* C31 witness: three workers have finished, and the first one's put
\* was the last.
C31_Witness ==
    /\ AllDone /\ Only({"worker"})
    /\ Len(threads) = 3
    /\ PageFrame_data(arcs, FramePage) = 1

\* C31: no pin and no unpin is lost: whenever no thread is inside a
\* method, the pin count is the number of threads between their pin and
\* their unpin; once all threads have finished the frame is not pinned,
\* and when all of them were workers its data is what one of them put.
C31_NoLostPin ==
    /\ mutex = None =>
          FramePage.pins = Cardinality({t \in DOMAIN threads : Between(t)})
    /\ AllDone =>
          /\ ~is_pinned(FramePage)
          /\ Only({"worker"}) => PageFrame_data(arcs, FramePage) \in DOMAIN threads

\* C32 witness: two mutators have finished, and an observer saw the
\* first one's value, and the dirty flag set.
C32_Witness ==
    /\ AllDone /\ Only({"mutator", "observer"})
    /\ PageFrame_data(arcs, FramePage) = 2
    /\ \E t \in DOMAIN threads :
          threads[t].seen = Some(1) /\ threads[t].flag = Some(TRUE)

\* C32: among threads that call with_data, data and is_dirty, a thread
\* that saw data changed by a with_data then sees the dirty flag set, and
\* when all have finished every with_data has been applied.
C32_AccessorsAtomic ==
    Only({"mutator", "observer"}) =>
        /\ \A t \in DOMAIN threads :
              (threads[t].seen # None /\ threads[t].flag # None
                  /\ threads[t].seen[1] # 0) => threads[t].flag[1]
        /\ AllDone =>
              PageFrame_data(arcs, FramePage) =
                 Cardinality({t \in DOMAIN threads : threads[t].kind = "mutator"})

\* ----------------------------------------------------------- MemPool
\* C33: resize(extra) makes size() larger by extra, and get_frame_ref
\* returns, for every index put_frame wrote, what it was given last,
\* whatever put_frame and resize calls came before.
C33_ResizeKeepsFrames ==
    /\ last.op = "resize" => MemPool_size(frame_pool) = last.before + last.fid
    /\ \A idx \in DOMAIN expected : get_frame_ref(frame_pool, idx) = expected[idx]

\* ---------------------------------------------------------- eviction
\* A get_page(fid) that finds every slot taken by another frame, one of
\* them unpinned, for a frame the store has and returns, with no failed
\* write-back.
EvictableMiss(fid) ==
    /\ MissFull(BP, size, fid)
    /\ ~AllPinned
    /\ get_frame_ref(frame_pool, fid) # None

\* C34 as stated: with either policy, a get_page miss in a full pool
\* with an unpinned frame evicts a frame and succeeds.
C34_UnpinnedIsEvicted ==
    [][(/\ last'.op = "get_page"
        /\ EvictableMiss(last'.fid)
        /\ last'.werr = {} /\ ~last'.rerr) =>
            last'.ok /\ last'.victim # NoFid]_vars

\* C34 witness: the bottom-up policy has passed over the pinned frame at
\* the bottom of the recency order and evicted the one above it.
C34_Witness ==
    /\ evictor = "bottom_evictor" /\ size = 2
    /\ last.op = "get_page" /\ last.ok /\ last.victim # NoFid
    /\ Len(lru.order) = 2
    /\ is_pinned(pages[lru.order[1] + 1][1])

\* C34: with the bottom-up policy, a get_page miss in a full pool with an
\* unpinned frame evicts a frame and succeeds.
C34_BottomUpEvictsUnpinned ==
    [][(/\ evictor = "bottom_evictor"
        /\ last'.op = "get_page"
        /\ EvictableMiss(last'.fid)
        /\ last'.werr = {} /\ ~last'.rerr) =>
            last'.ok /\ last'.victim # NoFid]_vars

\* C35: a get_page whose random evictor ran made at most capacity draws;
\* it either evicted a frame or, after exactly capacity draws, failed.
C35_RandomDrawsBounded ==
    (last.op = "get_page" /\ evictor = "random_evictor" /\ last.draws > 0) =>
        /\ last.draws <= size
        /\ last.victim # NoFid \/ (~last.ok /\ last.draws = size)

\* C36 as stated: after N > 1 accesses there were N - 1 evictions, of the
\* frames accessed before the last one, the one accessed last of them
\* first.
C36_ReverseOrder ==
    LET N == Len(access_log.order)
    IN (last.op = "get_page" /\ N > 1) =>
          /\ Len(access_log.evicted) = N - 1
          /\ \A k \in 1 .. N - 1 : access_log.evicted[k] = access_log.order[N - k]

\* C36 witness: four frames were accessed.
C36_Witness ==
    /\ last.op = "get_page" /\ last.ok
    /\ Len(access_log.order) = 4
    /\ access_log.order[1] > access_log.order[2]

\* C36: in a pool of capacity 1, each of N > 1 accesses of distinct
\* frames succeeds, and there were N - 1 evictions, of the frames accessed
\* before the last one, in the order of their access.
C36_EvictedInAccessOrder ==
    LET N == Len(access_log.order)
    IN (last.op = "get_page" /\ N > 1) =>
          /\ last.ok
          /\ Len(access_log.evicted) = N - 1
          /\ \A k \in 1 .. N - 1 : access_log.evicted[k] = access_log.order[k]

\* ----------------------------------------------------------- recency
\* C37: right after a get_page or put_page that succeeded the slot of
\* its frame is the top of the recency tracker, with the other tracked
\* slots in the order they had; one that failed leaves the tracker as it
\* was.
C37_TrackerFollowsGets ==
    [][last'.op \in {"get_page", "put_page"} =>
          IF last'.ok
          THEN LET slot == frame2buf'[last'.fid]
               IN /\ top(lru') = Some(slot)
                  /\ \A a, b \in Items(lru'.order) \ {slot} :
                        IndexOf(lru'.order, a, 1) < IndexOf(lru'.order, b, 1) =>
                           IndexOf(lru.order, a, 1) < IndexOf(lru.order, b, 1)
          ELSE lru' = lru]_vars

\* --------------------------------------------------------- coherence
\* Every cached frame that is not dirty holds what the store holds at its
\* frame id.
C38_CleanFramesMatchStore ==
    \A f \in DOMAIN frame2buf :
        ~is_dirty(CachedPage(f)) =>
            get_frame_ref(frame_pool, f) = Some(CachedPage(f).data)

\* A frame that stays cached goes from dirty to clean only in a call that
\* wrote it to the store.
C38_CleanedAfterWrite ==
    \A f \in DOMAIN frame2buf \cap DOMAIN frame2buf' :
        (/\ is_dirty(CachedPage(f))
         /\ ~is_dirty(pages'[frame2buf'[f] + 1][1])) => f \in last'.wrote

\* C38 witness: a flush_all has written one dirty frame, which it left
\* clean, and failed on another, which it left dirty.
C38_Witness ==
    /\ last.op = "flush_all" /\ ~last.ok
    /\ \E f \in last.wrote : f \in DOMAIN frame2buf /\ ~is_dirty(CachedPage(f))
    /\ \E f \in last.werr : is_dirty(CachedPage(f))

\* C38: a cached frame that is not dirty holds the store's content of its
\* frame id, and the pool clears a dirty flag only in a call that wrote
\* the frame.
C38_CleanMeansCoherent ==
    /\ []C38_CleanFramesMatchStore
    /\ [][C38_CleanedAfterWrite]_vars

\* ------------------------------------------------- one eviction a get
\* The empty slots.
EmptySlots(pgs) == {i \in 1 .. Len(pgs) : pgs[i] = None}

\* C39 witness: a get_page in a full pool of capacity 2 has evicted a
\* dirty frame, written it back and loaded the requested one into the
\* freed slot.
C39_Witness ==
    /\ last.op = "get_page" /\ last.ok
    /\ size = 2 /\ Full
    /\ last.victim # NoFid /\ last.victim \in last.wrote

\* C39: a get_page takes at most one frame out of the cache, and only
\* when every slot is taken and the requested frame is not cached; a hit
\* evicts nothing and leaves the store alone; after an eviction one slot
\* is empty unless the get succeeded, and a pool that was full before a
\* successful get is full after it.
C39_OneEvictionWhenFull ==
    [][last'.op = "get_page" =>
          LET gone == DOMAIN frame2buf \ DOMAIN frame2buf'
              hit == last'.fid \in DOMAIN frame2buf
          IN /\ Cardinality(gone) <= 1
             /\ gone = (IF last'.victim = NoFid THEN {} ELSE {last'.victim})
             /\ gone # {} => Full /\ ~hit
             /\ hit => /\ last'.ok /\ gone = {}
                       /\ last'.wrote = {} /\ last'.werr = {} /\ ~last'.rerr
                       /\ frame_pool' = frame_pool
                       /\ UNCHANGED <<pages, buf2frame, frame2buf>>
             /\ (gone # {} /\ ~last'.ok) => Cardinality(EmptySlots(pages')) = 1
             /\ (Full /\ last'.ok) =>
                   /\ Cardinality(DOMAIN frame2buf') = size
                   /\ EmptySlots(pages') = {}]_vars

====
